---- MODULE Spec2Model ----
(***************************************************************************)
(* A model of the fitness-studio REST backend (src/index.js).  The state   *)
(* is the document store (one sequence of documents per collection, in     *)
(* insertion order), the ObjectId generator, the server clock that         *)
(* `new Date()` reads, and the last request with its response.  There is   *)
(* one action per route handler.                                           *)
(***************************************************************************)
EXTENDS Integers, Sequences, FiniteSets, TLC

\* ------------------------------------------------------------------ bounds

\* ObjectIds are 1..MaxId: at most MaxId documents are ever inserted.
MaxId == 3
\* The Create routes are explored up to MaxCreated inserted documents.
MaxCreated == 2
\* At most MaxVotes votes are counted.
MaxVotes == 3

\* The most slots an availableSlots array is let grow to.
MaxSlots == 2

\* ------------------------------------------------------- JavaScript values

\* An absent field / JS undefined, for string-valued fields.
undefined == "undefined"
\* An absent field, for number-valued fields (age, experience, createdAt, counters).
undefinedNum == -2
\* Number(x) of something that is not numeric.
NaN == -999
\* An absent field, for list-valued fields.
undefinedList == <<undefined>>
\* JSON null as a response body or a merged detail.
null == [null |-> TRUE]

\* A faulty variant: only an absent field counts as missing, an empty string passes.
FalsyIfAbsent(v) == v = undefined

\* !v for a string-valued field.
Falsy(v) == v \in {undefined, ""}
\* !v for a number-valued field.
FalsyNum(n) == n \in {undefinedNum, NaN, 0}
\* Array.isArray(v) for a list-valued field.
IsArray(v) == v # undefinedList

\* Number(v) on the request's string or absent values.
Number(v) ==
  CASE v = "30" -> 30
    [] v = "5"  -> 5
    [] v = ""   -> 0
    [] OTHER    -> NaN

\* A path parameter that is not a 24-hex-digit string: new ObjectId(id) throws.
BadId == 0
\* new ObjectId(s) succeeds: s is one of the hexadecimal spellings of an id.
\* A positive n is the lower-case spelling of ObjectId n, -n its upper-case one.
ValidObjectId(s) == s # BadId
\* new ObjectId(s) for a valid s.
ObjectId(s) == IF s < 0 THEN -s ELSE s
\* _id.toString(): always the lower-case spelling.
IdToString(oid) == oid

\* No response was written for the request (it hangs).
NoResponse == 0

\* --------------------------------------------------------------- the state

VARIABLES
  db,      \* the store: a record of collections, each a sequence of documents
  nextId,  \* the next ObjectId the driver generates
  clock,   \* the server's millisecond clock
  pre,     \* db as it was when the last request arrived
  last,    \* the last request and its response
  tally,   \* per forum post, the vote requests answered with success so far
  calls    \* the requests in flight whose handler is between two store calls

vars == <<db, nextId, clock, pre, last, tally, calls>>

EmptyDb ==
  [users |-> <<>>, testimonials |-> <<>>, classes |-> <<>>, trainers |-> <<>>,
   forum |-> <<>>, subscriber |-> <<>>, bookings |-> <<>>, reviews |-> <<>>]

NoRequest ==
  [op |-> "none", req |-> <<>>, status |-> NoResponse, body |-> null, threw |-> FALSE]

NoVotes == [i \in 1..(MaxId + 1) |-> [up |-> 0, down |-> 0]]

\* The requests that may be in flight at once, and one that has not started:
\* its handler, the await it has reached (pc), its path parameter, the
\* document its findOne returned, the id of the document its insertOne
\* created, and the status it answered.
Calls == {1, 2}
NoCall ==
  [op |-> "none", pc |-> "idle", id |-> BadId, found |-> <<>>, made |-> BadId,
   status |-> NoResponse]
NoCalls == [c \in Calls |-> NoCall]

Init ==
  /\ db = EmptyDb
  /\ nextId = 1
  /\ clock = 0
  /\ pre = EmptyDb
  /\ last = NoRequest
  /\ tally = NoVotes
  /\ calls = NoCalls

\* ------------------------------------------------------ store primitives

Range(s) == {s[i] : i \in 1..Len(s)}
Ids(coll) == {coll[i]._id : i \in 1..Len(coll)}

\* A document matches an equality filter such as {email: e} or {_id: id}.
Matches(doc, filter) == \A k \in DOMAIN filter : doc[k] = filter[k]

\* find(filter).toArray() in natural (insertion) order.
Find(coll, filter) == SelectSeq(coll, LAMBDA d : Matches(d, filter))

\* The index of the first document matching, 0 when there is none.
FirstIndex(coll, filter) ==
  IF \E i \in 1..Len(coll) : Matches(coll[i], filter)
  THEN CHOOSE i \in 1..Len(coll) :
         /\ Matches(coll[i], filter)
         /\ \A j \in 1..(i - 1) : ~Matches(coll[j], filter)
  ELSE 0

\* A faulty variant: the lookup finds nothing.
FindNone(coll, filter) == <<>>

\* findOne(filter): the first match, as a sequence of length 0 or 1.
FindOne(coll, filter) ==
  LET i == FirstIndex(coll, filter) IN IF i = 0 THEN <<>> ELSE <<coll[i]>>

\* deleteOne(filter): the collection without its first match.
DeleteOne(coll, filter) ==
  LET i == FirstIndex(coll, filter)
  IN IF i = 0 THEN coll
     ELSE SubSeq(coll, 1, i - 1) \o SubSeq(coll, i + 1, Len(coll))

\* A faulty variant: the insert is acknowledged and not stored.
InsertNothing(coll, doc) == coll

\* insertOne(doc): appended, with _id set by the driver.
InsertOne(coll, doc) == Append(coll, doc)

\* All orders of `docs` with createdAt descending (absent createdAt last); the
\* store leaves the order of equal keys unspecified.
SortByCreatedAtDesc(docs) ==
  LET n == Len(docs)
      perms == {p \in [1..n -> 1..n] : \A i, j \in 1..n : i # j => p[i] # p[j]}
  IN {[i \in 1..n |-> docs[p[i]]] : p \in
        {q \in perms : \A i \in 1..(n - 1) :
            docs[q[i]].createdAt >= docs[q[i + 1]].createdAt}}

\* ---------------------------------------------------------------- replies

\* The request ends: `status` and `body` are what the client got, the store is
\* as `newdb`, newIds ObjectIds were generated and dt milliseconds went by.
Respond(op, req, status, body, threw, newdb, newIds, dt) ==
  /\ last' = [op |-> op, req |-> req, status |-> status, body |-> body, threw |-> threw]
  /\ pre' = db
  /\ db' = newdb
  /\ nextId' = nextId + newIds
  /\ clock' = clock + dt
  /\ UNCHANGED calls

\* res.status(status).json(body) on the handler's normal path.
Reply(op, req, status, body, newdb, newIds, dt) ==
  /\ Respond(op, req, status, body, FALSE, newdb, newIds, dt)
  /\ UNCHANGED tally

\* The handler's catch block: res.status(500).json({error: msg}).
Catch(op, req, msg, newdb, newIds, dt) ==
  /\ Respond(op, req, 500, [error |-> msg], TRUE, newdb, newIds, dt)
  /\ UNCHANGED tally

\* An exception in an async handler that has no try/catch: the promise the
\* handler returned is rejected.  Express 4 ignores that promise, so no response
\* is ever written; Express 5 passes the error to its default error handler,
\* which answers 500.
Uncaught(op, req) ==
  /\ \E status \in {NoResponse, 500} :
       Respond(op, req, status, [error |-> "Internal Server Error"], TRUE, db, 0, 0)
  /\ UNCHANGED tally

\* --------------------------------------------------------------- users

\* Request bodies of POST /users.
UserBodies ==
  [name : {"Ann"}, email : {"a@x", "t@x", undefined, ""}, role : {"admin"}]

\* A faulty variant: the role of the payload is stored.
UserDocAsSent(user, id) ==
  [_id |-> id, name |-> user.name, email |-> user.email, image |-> undefined,
   role |-> user.role, createdAt |-> undefinedNum]

\* The document POST /users inserts for a new user: the body with role "member".
UserDocOf(user, id) ==
  [_id |-> id, name |-> user.name, email |-> user.email, image |-> undefined,
   role |-> "member", createdAt |-> undefinedNum]

\* A faulty variant: the role is patched in the response only.
SetRoleNowhere(users, email) == users

\* updateOne({email}, {$set: {role: "member"}}): the first match gets the role.
SetRoleMember(users, email) ==
  LET i == FirstIndex(users, [email |-> email])
  IN IF i = 0 THEN users ELSE [users EXCEPT ![i].role = "member"]

\* app.post("/users"); f is the store operation that throws (0: none).
RegisterUser(user, f) ==
  LET existing == FindOne(db.users, [email |-> user.email])
  IN
  IF Falsy(user.email)
  THEN Reply("POST /users", user, 400, [error |-> "Email is required"], db, 0, 0)
  ELSE IF f = 1
  THEN Catch("POST /users", user, "Failed to save user", db, 0, 0)
  ELSE IF existing # <<>>
  THEN IF Falsy(existing[1].role)
       THEN IF f = 2
            THEN Catch("POST /users", user, "Failed to save user", db, 0, 0)
            ELSE Reply("POST /users", user, 200,
                       [message |-> "User already exists",
                        user |-> [existing[1] EXCEPT !.role = "member"]],
                       [db EXCEPT !.users = SetRoleMember(@, user.email)], 0, 0)
       ELSE Reply("POST /users", user, 200,
                  [message |-> "User already exists", user |-> existing[1]], db, 0, 0)
  ELSE /\ nextId <= MaxId
       /\ IF f = 2
          THEN Catch("POST /users", user, "Failed to save user", db, 0, 0)
          ELSE Reply("POST /users", user, 201,
                     [message |-> "User registered successfully", insertedId |-> nextId],
                     [db EXCEPT !.users = InsertOne(@, UserDocOf(user, nextId))], 1, 0)

\* app.get("/users")
GetUsers(f) ==
  IF f = 1
  THEN Catch("GET /users", <<>>, "Failed to get users", db, 0, 0)
  ELSE Reply("GET /users", <<>>, 200, db.users, db, 0, 0)

\* ------------------------------------------------------------- trainers

\* A document of the trainers collection; a field the document lacks is undefined.
TrainerDoc(id, name, email, age, image, experience, details, expertise, availableDays, availableSlots, socials, status, feedback, createdAt) ==
  [_id |-> id, name |-> name, email |-> email, age |-> age, image |-> image,
   experience |-> experience, details |-> details, expertise |-> expertise,
   availableDays |-> availableDays, availableSlots |-> availableSlots,
   socials |-> socials, status |-> status, feedback |-> feedback,
   createdAt |-> createdAt]

\* Request bodies of POST /trainers: any JSON object; name, image and experience
\* are checked, email and status are only stored.
TrainerBodies ==
  [name : {"Bob"}, email : {"b@x"}, image : {"img"}, experience : {3},
   status : {undefined, "pending"}]

\* app.post("/trainers"); f is the store operation that throws (0: none).
AddTrainer(trainer, dt, f) ==
  IF Falsy(trainer.name) \/ Falsy(trainer.image) \/ FalsyNum(trainer.experience)
  THEN Reply("POST /trainers", trainer, 400,
             [error |-> "Name, image, and experience are required"], db, 0, 0)
  ELSE
    /\ nextId <= MaxId
    /\ IF f = 1
       THEN Catch("POST /trainers", trainer, "Failed to add trainer", db, 0, 0)
       ELSE Reply("POST /trainers", trainer, 201,
                  [message |-> "Trainer added successfully", insertedId |-> nextId],
                  [db EXCEPT !.trainers = InsertOne(@,
                     TrainerDoc(nextId, trainer.name, trainer.email, undefinedNum,
                                trainer.image, trainer.experience, undefined,
                                undefinedList, undefinedList, undefinedList, undefined,
                                trainer.status, undefined, clock + dt))],
                  1, dt)

\* GET /trainers: every trainer document, newest first.
TrainerLists(store) == SortByCreatedAtDesc(store.trainers)

\* app.get("/trainers")
GetTrainers(f) ==
  IF f = 1
  THEN Catch("GET /trainers", <<>>, "Failed to fetch trainers", db, 0, 0)
  ELSE \E list \in TrainerLists(db) : Reply("GET /trainers", <<>>, 200, list, db, 0, 0)

\* What GET /trainers/:id answers on `store` when the store does not fail, as
\* <<status, body>>: new ObjectId(id) throws on a malformed id.
TrainerById(store, id) ==
  IF ~ValidObjectId(id)
  THEN <<500, [error |-> "Failed to fetch trainer"]>>
  ELSE LET trainer == FindOne(store.trainers, [_id |-> ObjectId(id)])
       IN IF trainer = <<>>
          THEN <<404, [error |-> "Trainer not found"]>>
          ELSE <<200, trainer[1]>>

\* app.get("/trainers/:id")
GetTrainer(id, f) ==
  LET op == "GET /trainers/:id"
      res == TrainerById(db, id)
  IN
  IF res[1] = 500 \/ f = 1
  THEN Catch(op, [id |-> id], "Failed to fetch trainer", db, 0, 0)
  ELSE Reply(op, [id |-> id], res[1], res[2], db, 0, 0)

\* Request bodies of POST /trainers/apply.
ApplyBodies ==
  [name : {"Tom"}, email : {"t@x"}, age : {"30"}, image : {"img"},
   experience : {"5"}, details : {undefined}, expertise : {undefinedList},
   availableDays : {<<"Mon">>}, availableSlots : {<<"s1">>}, socials : {undefined},
   status : {undefined, "approved"}]

\* The document POST /trainers/apply builds from the request body.
NewTrainer(trainer, id, now) ==
  TrainerDoc(id, trainer.name, trainer.email, Number(trainer.age), trainer.image,
             Number(trainer.experience),
             IF Falsy(trainer.details) THEN "" ELSE trainer.details,
             IF IsArray(trainer.expertise) THEN trainer.expertise ELSE <<>>,
             IF IsArray(trainer.availableDays) THEN trainer.availableDays ELSE <<>>,
             IF IsArray(trainer.availableSlots) THEN trainer.availableSlots ELSE <<>>,
             IF Falsy(trainer.socials) THEN "{facebook,instagram,linkedin}" ELSE trainer.socials,
             IF Falsy(trainer.status) THEN "pending" ELSE trainer.status,
             undefined, now)

\* app.post("/trainers/apply")
ApplyTrainer(trainer, dt, f) ==
  /\ nextId <= MaxId
  /\ IF f = 1
     THEN Catch("POST /trainers/apply", trainer, "Failed to submit application", db, 0, 0)
     ELSE Reply("POST /trainers/apply", trainer, 200,
                [success |-> TRUE, insertedId |-> nextId],
                [db EXCEPT !.trainers = InsertOne(@, NewTrainer(trainer, nextId, clock + dt))],
                1, dt)

\* GET /trainers/applications/pending: find({status: "pending"}).
PendingApps(store) == Find(store.trainers, [status |-> "pending"])

\* app.get("/trainers/applications/pending")
GetPending(f) ==
  IF f = 1
  THEN Catch("GET /trainers/applications/pending", <<>>, "Failed to fetch pending trainer applications", db, 0, 0)
  ELSE Reply("GET /trainers/applications/pending", <<>>, 200, PendingApps(db), db, 0, 0)

\* The document the confirm handler inserts for `applicant`.
ApprovedDoc(applicant, id, now) ==
  TrainerDoc(id, applicant.name, applicant.email, applicant.age, applicant.image,
             applicant.experience, applicant.details,
             IF IsArray(applicant.expertise) THEN applicant.expertise ELSE <<>>,
             IF IsArray(applicant.availableDays) THEN applicant.availableDays ELSE <<>>,
             IF IsArray(applicant.availableSlots) THEN applicant.availableSlots ELSE <<>>,
             IF Falsy(applicant.socials) THEN "{}" ELSE applicant.socials,
             "approved", undefined, now)

\* A faulty variant: the confirm handler without its deleteOne.
ApproveWritesNoDelete(trainers, applicant, id, newId, now) ==
  InsertOne(trainers, [_id |-> newId, name |-> applicant.name, email |-> applicant.email,
                       age |-> applicant.age, image |-> applicant.image,
                       experience |-> applicant.experience, details |-> applicant.details,
                       expertise |-> applicant.expertise,
                       availableDays |-> applicant.availableDays,
                       availableSlots |-> applicant.availableSlots,
                       socials |-> applicant.socials, status |-> "approved",
                       feedback |-> undefined, createdAt |-> now])

\* The trainers collection after the confirm handler's insertOne and deleteOne.
ApproveWrites(trainers, applicant, id, newId, now) ==
  DeleteOne(InsertOne(trainers, ApprovedDoc(applicant, newId, now)),
            [_id |-> ObjectId(id)])

\* app.patch("/trainers/applications/:id/confirm"); f is the store operation that
\* throws (0: none, 1: findOne, 2: insertOne, 3: deleteOne).
Approve(id, dt, f) ==
  LET op == "PATCH /trainers/applications/:id/confirm"
      err == "Failed to confirm trainer"
      applicant == FindOne(db.trainers, [_id |-> ObjectId(id)])
  IN
  IF ~ValidObjectId(id) \/ f = 1
  THEN Catch(op, [id |-> id], err, db, 0, 0)
  ELSE IF applicant = <<>>
  THEN Reply(op, [id |-> id], 404, [error |-> "Applicant not found"], db, 0, 0)
  ELSE
    /\ nextId <= MaxId
    /\ IF f = 2
       THEN Catch(op, [id |-> id], err, db, 0, 0)
       ELSE IF f = 3
       THEN Catch(op, [id |-> id], err,
                  [db EXCEPT !.trainers = InsertOne(@, ApprovedDoc(applicant[1], nextId, clock + dt))],
                  1, dt)
       ELSE Reply(op, [id |-> id], 200,
                  [success |-> TRUE, message |-> "Trainer approved and added"],
                  [db EXCEPT !.trainers = ApproveWrites(@, applicant[1], id, nextId, clock + dt)],
                  1, dt)

\* Feedback values of the reject request body.
Feedbacks == {undefined, "too junior"}

\* updateOne({_id}, {$set: {status: "rejected", feedback}}): the collection after it.
RejectUpdate(trainers, id, feedback) ==
  LET i == FirstIndex(trainers, [_id |-> ObjectId(id)])
  IN IF i = 0 THEN trainers
     ELSE [trainers EXCEPT ![i].status = "rejected",
                           ![i].feedback = IF Falsy(feedback) THEN "No feedback provided"
                                           ELSE feedback]

\* A faulty variant: the update always reports a modified document.
ModifiedCountOne(before, after) == 1

\* result.modifiedCount of an updateOne: 1 when the matched document changed.
ModifiedCount(before, after) == IF before = after THEN 0 ELSE 1

\* app.patch("/trainers/applications/:id/reject")
Reject(id, feedback, f) ==
  LET op == "PATCH /trainers/applications/:id/reject"
      req == [id |-> id, feedback |-> feedback]
      after == RejectUpdate(db.trainers, id, feedback)
  IN
  IF ~ValidObjectId(id) \/ f = 1
  THEN Catch(op, req, "Failed to reject trainer", db, 0, 0)
  ELSE IF ModifiedCount(db.trainers, after) = 0
  THEN Reply(op, req, 404, [error |-> "Applicant not found or already rejected"], db, 0, 0)
  ELSE Reply(op, req, 200, [success |-> TRUE, message |-> "Application rejected with feedback"],
             [db EXCEPT !.trainers = after], 0, 0)

\* A faulty variant: the demoted trainer keeps a trainer role.
UserDocAsTrainer(trainer, id, now) ==
  [_id |-> id, name |-> trainer.name, email |-> trainer.email,
   image |-> trainer.image, role |-> "trainer", createdAt |-> now]

\* The user document the remove-trainer handler builds.
UserDoc(trainer, id, now) ==
  [_id |-> id, name |-> trainer.name, email |-> trainer.email,
   image |-> IF Falsy(trainer.image) THEN "" ELSE trainer.image,
   role |-> "member", createdAt |-> now]

\* app.patch("/trainers/:id/remove-trainer"); f is the store operation that
\* throws (0: none, 1: findOne, 2: insertOne, 3: deleteOne).
RemoveTrainer(trainerId, dt, f) ==
  LET op == "PATCH /trainers/:id/remove-trainer"
      req == [id |-> trainerId]
      err == "Failed to remove trainer"
      trainer == FindOne(db.trainers, [_id |-> ObjectId(trainerId)])
      inserted == [db EXCEPT !.users = InsertOne(@, UserDoc(trainer[1], nextId, clock + dt))]
  IN
  IF ~ValidObjectId(trainerId) \/ f = 1
  THEN Catch(op, req, err, db, 0, 0)
  ELSE IF trainer = <<>>
  THEN Reply(op, req, 404, [message |-> "Trainer not found"], db, 0, 0)
  ELSE
    /\ nextId <= MaxId
    /\ IF f = 2
       THEN Catch(op, req, err, db, 0, 0)
       ELSE IF f = 3
       THEN Catch(op, req, err, inserted, 1, dt)
       ELSE Reply(op, req, 200,
                  [success |-> TRUE,
                   message |-> "Trainer removed and converted to member successfully"],
                  [inserted EXCEPT !.trainers = DeleteOne(@, [_id |-> ObjectId(trainerId)])],
                  1, dt)

\* --------------------------------------------------------- testimonials

\* Request bodies of POST /testimonials.
TestimonialBodies ==
  {[name |-> "Ann", review |-> "good", role |-> "member"],
   [name |-> undefined, review |-> "good", role |-> "member"],
   [name |-> "Ann", review |-> "", role |-> "member"]}

\* app.post("/testimonials")
AddTestimonial(testimonial, dt, f) ==
  LET op == "POST /testimonials" IN
  IF Falsy(testimonial.name) \/ Falsy(testimonial.review)
  THEN Reply(op, testimonial, 400, [error |-> "Name and review are required"], db, 0, 0)
  ELSE
    /\ nextId <= MaxId
    /\ IF f = 1
       THEN Catch(op, testimonial, "Failed to add testimonial", db, 0, 0)
       ELSE Reply(op, testimonial, 201,
                  [message |-> "Testimonial added successfully", id |-> nextId],
                  [db EXCEPT !.testimonials = InsertOne(@,
                     [_id |-> nextId, name |-> testimonial.name, review |-> testimonial.review,
                      role |-> testimonial.role, createdAt |-> clock + dt])],
                  1, dt)

\* GET /testimonials: every testimonial, newest first.
TestimonialLists(store) == SortByCreatedAtDesc(store.testimonials)

\* -------------------------------------------------------------- classes

\* Request bodies of POST /classes.
ClassBodies ==
  {[name |-> "Yoga", image |-> "img", details |-> "d", totalBookings |-> 7],
   [name |-> "Spin", image |-> "img", details |-> "d", totalBookings |-> undefinedNum],
   [name |-> "", image |-> "img", details |-> "d", totalBookings |-> undefinedNum],
   [name |-> "Yoga", image |-> undefined, details |-> "d", totalBookings |-> undefinedNum],
   [name |-> "Yoga", image |-> "img", details |-> undefined, totalBookings |-> undefinedNum]}

\* A faulty variant: the totalBookings of the payload is stored.
NewClassAsSent(body, id, now) ==
  [_id |-> id, name |-> body.name, image |-> body.image, details |-> body.details,
   createdAt |-> now, totalBookings |-> body.totalBookings]

\* The class document POST /classes stores.
NewClass(body, id, now) ==
  [_id |-> id, name |-> body.name, image |-> body.image, details |-> body.details,
   createdAt |-> now, totalBookings |-> 0]

\* app.post("/classes")
AddClass(newClass, dt, f) ==
  LET op == "POST /classes" IN
  IF Falsy(newClass.name) \/ Falsy(newClass.image) \/ Falsy(newClass.details)
  THEN Reply(op, newClass, 400,
             [error |-> "Class name, image, and details are required"], db, 0, 0)
  ELSE
    /\ nextId <= MaxId
    /\ IF f = 1
       THEN Catch(op, newClass, "Failed to add class", db, 0, 0)
       ELSE Reply(op, newClass, 201,
                  [message |-> "Class added successfully", insertedId |-> nextId],
                  [db EXCEPT !.classes = InsertOne(@, NewClass(newClass, nextId, clock + dt))],
                  1, dt)

\* parseInt(s) of a query parameter.
ParseInt(s) ==
  CASE s = "0" -> 0
    [] s = "1" -> 1
    [] s = "2" -> 2
    [] s = "3" -> 3
    [] s = "4" -> 4
    [] OTHER   -> NaN

\* The default page size of GET /classes and the page size of GET /forum.
DefaultLimit == 6

\* parseInt(req.query.page) || 1
PageOf(page) == IF FalsyNum(ParseInt(page)) THEN 1 ELSE ParseInt(page)
\* parseInt(req.query.limit) || 6
LimitOf(limit) == IF FalsyNum(ParseInt(limit)) THEN DefaultLimit ELSE ParseInt(limit)

\* {name: {$regex: search, $options: "i"}} on the names and keywords used here.
RegexMatchI(name, search) ==
  \/ search = "yo" /\ name = "Yoga"
  \/ search = "S" /\ name = "Spin"

\* The documents the query of GET /classes selects: all when search is empty.
MatchingClasses(store, search) ==
  IF Falsy(search) THEN store.classes
  ELSE SelectSeq(store.classes, LAMBDA c : RegexMatchI(c.name, search))

\* Math.ceil(a / b) for b > 0.
Ceil(a, b) == (a + b - 1) \div b

\* cursor.skip(skip).limit(limit) on an ordered result.
SkipLimit(docs, skip, limit) ==
  SubSeq(docs, skip + 1, IF skip + limit > Len(docs) THEN Len(docs) ELSE skip + limit)

\* Every body GET /classes may answer on `store`.
ClassPages(store, page, limit, search) ==
  LET matching == MatchingClasses(store, search)
  IN {[data |-> SkipLimit(sorted, (PageOf(page) - 1) * LimitOf(limit), LimitOf(limit)),
       currentPage |-> PageOf(page),
       totalPages |-> Ceil(Len(matching), LimitOf(limit)),
       totalClasses |-> Len(matching)] : sorted \in SortByCreatedAtDesc(matching)}

\* app.get("/classes"); f: 1 countDocuments throws, 2 find throws.
GetClasses(page, limit, search, f) ==
  LET op == "GET /classes"
      req == [page |-> page, limit |-> limit, search |-> search]
  IN IF f \in {1, 2}
     THEN Catch(op, req, "Failed to fetch classes", db, 0, 0)
     ELSE \E body \in ClassPages(db, page, limit, search) : Reply(op, req, 200, body, db, 0, 0)

\* ---------------------------------------------------------------- forum

\* Request bodies of POST /forum: stored as sent.
ForumBodies ==
  {[title |-> "hi", upvotes |-> 0, downvotes |-> 0],
   [title |-> "yo", upvotes |-> undefinedNum, downvotes |-> undefinedNum]}

\* app.post("/forum")
AddPost(post, f) ==
  LET op == "POST /forum" IN
  /\ nextId <= MaxId
  /\ IF f = 1
     THEN Catch(op, post, "Failed to add forum post", db, 0, 0)
     ELSE Reply(op, post, 200, [success |-> TRUE, message |-> "Forum post added!"],
                [db EXCEPT !.forum = InsertOne(@,
                   [_id |-> nextId, title |-> post.title, upvotes |-> post.upvotes,
                    downvotes |-> post.downvotes, createdAt |-> undefinedNum])],
                1, 0)

\* Every body GET /forum may answer on `store`.
ForumPages(store, page) ==
  {[posts |-> SkipLimit(sorted, (PageOf(page) - 1) * DefaultLimit, DefaultLimit),
    totalPages |-> Ceil(Len(store.forum), DefaultLimit),
    currentPage |-> PageOf(page)] : sorted \in SortByCreatedAtDesc(store.forum)}

\* {$inc: {field: 1}} on one counter: an absent counter counts as 0.
Inc(n) == IF n = undefinedNum THEN 1 ELSE n + 1

\* A faulty variant: a vote bumps both counters.
VoteUpdateBoth(forum, postId, voteType) ==
  LET i == FirstIndex(forum, [_id |-> ObjectId(postId)])
  IN IF i = 0 THEN forum
     ELSE [forum EXCEPT ![i].upvotes = Inc(@), ![i].downvotes = Inc(@)]

\* updateOne({_id}, voteType === "up" ? {$inc: {upvotes: 1}} : {$inc: {downvotes: 1}})
VoteUpdate(forum, postId, voteType) ==
  LET i == FirstIndex(forum, [_id |-> ObjectId(postId)])
  IN IF i = 0 THEN forum
     ELSE IF voteType = "up"
          THEN [forum EXCEPT ![i].upvotes = Inc(@)]
          ELSE [forum EXCEPT ![i].downvotes = Inc(@)]

\* Votes answered with success for a post that existed, per post and direction.
Counted(votes, forum, postId, voteType) ==
  IF FirstIndex(forum, [_id |-> ObjectId(postId)]) = 0 THEN votes
  ELSE IF voteType = "up"
       THEN [votes EXCEPT ![ObjectId(postId)].up = @ + 1]
       ELSE [votes EXCEPT ![ObjectId(postId)].down = @ + 1]

\* Votes counted so far, over all posts.
TotalVotes == LET RECURSIVE Sum(_)
                  Sum(i) == IF i = 0 THEN 0 ELSE tally[i].up + tally[i].down + Sum(i - 1)
              IN Sum(MaxId + 1)

\* app.patch("/forum/:id/vote")
Vote(postId, voteType, f) ==
  LET op == "PATCH /forum/:id/vote"
      req == [id |-> postId, voteType |-> voteType]
  IN
  IF ~ValidObjectId(postId) \/ f = 1
  THEN Catch(op, req, "Failed to update vote", db, 0, 0)
  ELSE /\ TotalVotes < MaxVotes
       /\ Respond(op, req, 200, [success |-> TRUE], FALSE,
                  [db EXCEPT !.forum = VoteUpdate(@, postId, voteType)], 0, 0)
       /\ tally' = Counted(tally, db.forum, postId, voteType)

\* -------------------------------------------------------------- reviews

\* Request bodies of POST /reviews.
ReviewBodies == {[trainerId |-> 1, text |-> "great"]}

\* app.post("/reviews")
AddReview(review, dt, f) ==
  LET op == "POST /reviews" IN
  /\ nextId <= MaxId
  /\ IF f = 1
     THEN Catch(op, review, "Failed to submit review", db, 0, 0)
     ELSE Reply(op, review, 200,
                [success |-> TRUE, message |-> "Review submitted successfully"],
                [db EXCEPT !.reviews = InsertOne(@,
                   [_id |-> nextId, trainerId |-> review.trainerId, text |-> review.text,
                    createdAt |-> clock + dt])],
                1, dt)

\* GET /reviews: every review, newest first.
ReviewLists(store) == SortByCreatedAtDesc(store.reviews)

\* ---------------------------------------------------------- subscribers

\* Request bodies of POST /newsletter/subscribe.
SubscribeBodies ==
  {[name |-> "Ann", email |-> "a@x"],
   [name |-> "", email |-> "a@x"],
   [name |-> "Ann", email |-> undefined]}

\* app.post("/newsletter/subscribe"); f: 1 findOne throws, 2 insertOne throws.
Subscribe(body, dt, f) ==
  LET op == "POST /newsletter/subscribe"
      existing == FindOne(db.subscriber, [email |-> body.email])
  IN
  IF Falsy(body.name) \/ Falsy(body.email)
  THEN Reply(op, body, 400, [error |-> "Name and email are required"], db, 0, 0)
  ELSE IF f = 1
  THEN Catch(op, body, "Failed to subscribe", db, 0, 0)
  ELSE IF existing # <<>>
  THEN Reply(op, body, 409, [error |-> "You are already subscribed"], db, 0, 0)
  ELSE
    /\ nextId <= MaxId
    /\ IF f = 2
       THEN Catch(op, body, "Failed to subscribe", db, 0, 0)
       ELSE Reply(op, body, 200, [success |-> TRUE, message |-> "Subscription successful"],
                  [db EXCEPT !.subscriber = InsertOne(@,
                     [_id |-> nextId, name |-> body.name, email |-> body.email,
                      createdAt |-> clock + dt])],
                  1, dt)

\* GET /newsletter/subscribers: every subscriber, newest first.
SubscriberLists(store) == SortByCreatedAtDesc(store.subscriber)

\* ------------------------------------------------------------- bookings

\* The trainerId strings of payment bodies: BadId is no ObjectId spelling,
\* n > 0 spells ObjectId n in lower case and -n spells it in upper case.
TrainerIdStrings == (-1..MaxId) \cup {undefinedNum}

\* app.post("/payments")
AddPayment(payment, dt, f) ==
  LET op == "POST /payments" IN
  IF Falsy(payment.userEmail) \/ payment.trainerId = undefinedNum
  THEN Reply(op, payment, 400, [error |-> "Invalid booking data"], db, 0, 0)
  ELSE
    /\ nextId <= MaxId
    /\ IF f = 1
       THEN Catch(op, payment, "Failed to save booking/payment", db, 0, 0)
       ELSE Reply(op, payment, 201,
                  [message |-> "Payment & booking saved successfully", id |-> nextId],
                  [db EXCEPT !.bookings = InsertOne(@,
                     [_id |-> nextId, userEmail |-> payment.userEmail,
                      trainerId |-> payment.trainerId, status |-> "success",
                      createdAt |-> clock + dt])],
                  1, dt)

\* app.get("/bookings/trainer/:trainerId"): no try/catch.
GetTrainerBookings(trainerId, f) ==
  LET op == "GET /bookings/trainer/:trainerId" IN
  IF f = 1
  THEN Uncaught(op, [trainerId |-> trainerId])
  ELSE Reply(op, [trainerId |-> trainerId], 200,
             Find(db.bookings, [trainerId |-> trainerId]), db, 0, 0)

\* find({_id: {$in: trainerIds}}) on the trainers collection.
FindIn(coll, ids) == SelectSeq(coll, LAMBDA d : d._id \in ids)

\* bookings.map(...): each booking with the trainer whose _id.toString() is the
\* booking's trainerId, or null.
Merge(bookings, trainers) ==
  [i \in 1..Len(bookings) |->
     LET trainerInfo == SelectSeq(trainers, LAMBDA t : IdToString(t._id) = bookings[i].trainerId)
     IN [booking |-> bookings[i],
         trainerDetails |-> IF trainerInfo = <<>> THEN null ELSE trainerInfo[1]]]

\* app.get("/bookings/user/:email"); f: 1 the bookings find throws, 2 the
\* trainers find throws.
GetUserBookings(email, f) ==
  LET op == "GET /bookings/user/:email"
      req == [email |-> email]
      found == Find(db.bookings, [userEmail |-> email, status |-> "success"])
  IN
  IF f = 1
  THEN Catch(op, req, "Failed to fetch booked trainers", db, 0, 0)
  ELSE IF found = <<>>
  THEN Reply(op, req, 200, <<>>, db, 0, 0)
  ELSE IF (\E b \in Range(found) : ~ValidObjectId(b.trainerId)) \/ f = 2
  THEN Catch(op, req, "Failed to fetch booked trainers", db, 0, 0)
  ELSE \E bookings \in SortByCreatedAtDesc(found) :
         Reply(op, req, 200,
               Merge(bookings, FindIn(db.trainers, {ObjectId(b.trainerId) : b \in Range(bookings)})),
               db, 0, 0)

\* ------------------------------------------- trainers: by email, slots

\* app.get("/trainers/by-email/:email"): no try/catch, and null when absent.
GetTrainerByEmail(email, f) ==
  LET op == "GET /trainers/by-email/:email"
      trainer == FindOne(db.trainers, [email |-> email])
  IN IF f = 1
     THEN Uncaught(op, [email |-> email])
     ELSE Reply(op, [email |-> email], 200,
                IF trainer = <<>> THEN null ELSE trainer[1], db, 0, 0)

\* {$pull: {availableSlots: slot}}: every element equal to slot is removed.
Pull(slots, slot) ==
  IF IsArray(slots) THEN SelectSeq(slots, LAMBDA x : x # slot) ELSE slots

\* app.delete("/trainers/:trainerId/slots"): no try/catch.
DeleteSlot(trainerId, slot, f) ==
  LET op == "DELETE /trainers/:trainerId/slots"
      req == [trainerId |-> trainerId, slot |-> slot]
      i == FirstIndex(db.trainers, [_id |-> ObjectId(trainerId)])
  IN IF ~ValidObjectId(trainerId) \/ f = 1
     THEN Uncaught(op, req)
     ELSE Reply(op, req, 200, [success |-> TRUE],
                IF i = 0 THEN db
                ELSE [db EXCEPT !.trainers[i].availableSlots = Pull(@, slot)], 0, 0)

\* ------------------------------------------------------ lookups by key

\* app.get("/trainers/applications/:id"): the filter also asks for status pending.
GetApplication(id, f) ==
  LET op == "GET /trainers/applications/:id"
      applicant == FindOne(db.trainers, [_id |-> ObjectId(id), status |-> "pending"])
  IN IF ~ValidObjectId(id) \/ f = 1
     THEN Catch(op, [id |-> id], "Failed to fetch applicant details", db, 0, 0)
     ELSE IF applicant = <<>>
     THEN Reply(op, [id |-> id], 404, [error |-> "Applicant not found"], db, 0, 0)
     ELSE Reply(op, [id |-> id], 200, applicant[1], db, 0, 0)

\* app.get("/trainers/email/:email")
GetTrainerEmail(email, f) ==
  LET op == "GET /trainers/email/:email"
      trainer == FindOne(db.trainers, [email |-> email])
  IN IF f = 1
     THEN Catch(op, [email |-> email], "Failed to fetch trainer", db, 0, 0)
     ELSE IF trainer = <<>>
     THEN Reply(op, [email |-> email], 404, [error |-> "Trainer not found"], db, 0, 0)
     ELSE Reply(op, [email |-> email], 200, trainer[1], db, 0, 0)

\* ------------------------------------------------------------- routing

\* The GET routes of the application in the order app.get registers them,
\* each path as its segments.
GetRoutes ==
  << [op |-> "GET /users", pattern |-> <<"users">>],
     [op |-> "GET /testimonials", pattern |-> <<"testimonials">>],
     [op |-> "GET /classes", pattern |-> <<"classes">>],
     [op |-> "GET /classes/featured", pattern |-> <<"classes", "featured">>],
     [op |-> "GET /trainers", pattern |-> <<"trainers">>],
     [op |-> "GET /trainers/:id", pattern |-> <<"trainers", ":id">>],
     [op |-> "GET /forum", pattern |-> <<"forum">>],
     [op |-> "GET /trainers/applications", pattern |-> <<"trainers", "applications">>],
     [op |-> "GET /trainers/applications/pending",
      pattern |-> <<"trainers", "applications", "pending">>],
     [op |-> "GET /trainers/applications/:id", pattern |-> <<"trainers", "applications", ":id">>],
     [op |-> "GET /newsletter/subscribers", pattern |-> <<"newsletter", "subscribers">>],
     [op |-> "GET /trainers/by-email/:email", pattern |-> <<"trainers", "by-email", ":email">>],
     [op |-> "GET /bookings/trainer/:trainerId",
      pattern |-> <<"bookings", "trainer", ":trainerId">>],
     [op |-> "GET /trainers/email/:email", pattern |-> <<"trainers", "email", ":email">>],
     [op |-> "GET /trainers/applications/status/filter",
      pattern |-> <<"trainers", "applications", "status", "filter">>],
     [op |-> "GET /reviews/trainer/:trainerId",
      pattern |-> <<"reviews", "trainer", ":trainerId">>],
     [op |-> "GET /reviews", pattern |-> <<"reviews">>],
     [op |-> "GET /bookings/user/:email", pattern |-> <<"bookings", "user", ":email">>] >>

\* A segment of a route pattern that stands for a parameter.
IsParam(segment) == segment \in {":id", ":email", ":trainerId"}

\* The router's test of a request path against a route pattern: the same
\* number of segments, each equal to the pattern's or taken by a parameter.
PathMatches(pattern, path) ==
  /\ Len(pattern) = Len(path)
  /\ \A i \in 1..Len(pattern) : IsParam(pattern[i]) \/ pattern[i] = path[i]

\* The handler a GET request for `path` runs: that of the first registered
\* route whose pattern matches, "none" when no route does.
Dispatch(path) ==
  LET hits == {i \in 1..Len(GetRoutes) : PathMatches(GetRoutes[i].pattern, path)}
  IN IF hits = {} THEN "none"
     ELSE GetRoutes[CHOOSE i \in hits : \A j \in hits : i <= j].op

\* An identifier no stored document has: what a string of 12 characters gives
\* where new ObjectId takes it as 12 bytes.
TwelveBytes == MaxId + 2

\* What new ObjectId(segment) may give for a path segment: the id a decimal
\* spelling stands for here, BadId when it throws. A string of 12 characters
\* such as "applications" is taken as 12 bytes by some driver versions and
\* rejected by others.
SegmentIds(segment) ==
  CASE segment = "1" -> {1}
    [] segment = "2" -> {2}
    [] segment = "3" -> {3}
    [] segment = "applications" -> {BadId, TwelveBytes}
    [] OTHER -> {BadId}

\* What GET /trainers/applications answers on `store`, as <<status, body>>.
ApplicationsOf(store, email) ==
  IF Falsy(email)
  THEN {<<400, [error |-> "Email is required"]>>}
  ELSE {<<200, list>> : list \in SortByCreatedAtDesc(Find(store.trainers, [email |-> email]))}

\* What GET /trainers/applications/:id answers on `store`, as <<status, body>>.
ApplicationById(store, id) ==
  IF ~ValidObjectId(id)
  THEN <<500, [error |-> "Failed to fetch applicant details"]>>
  ELSE LET applicant == FindOne(store.trainers, [_id |-> ObjectId(id), status |-> "pending"])
       IN IF applicant = <<>>
          THEN <<404, [error |-> "Applicant not found"]>>
          ELSE <<200, applicant[1]>>

\* What the handler `op` may answer to a GET request for `path` with query
\* parameter email, as <<status, body>>.
Answers(op, path, email) ==
  CASE op = "GET /trainers" -> {<<200, list>> : list \in TrainerLists(db)}
    [] op = "GET /trainers/:id" -> {TrainerById(db, id) : id \in SegmentIds(path[2])}
    [] op = "GET /trainers/applications" -> ApplicationsOf(db, email)
    [] op = "GET /trainers/applications/pending" -> {<<200, PendingApps(db)>>}
    [] op = "GET /trainers/applications/:id" ->
         {ApplicationById(db, id) : id \in SegmentIds(path[3])}
    [] OTHER -> {<<404, [error |-> "Cannot GET"]>>}

\* A GET request for `path`, dispatched through the registered routes.
Get(path, email) ==
  LET op == Dispatch(path)
      req == [path |-> path, email |-> email]
  IN \E res \in Answers(op, path, email) :
       IF res[1] = 500
       THEN Catch(op, req, res[2].error, db, 0, 0)
       ELSE Reply(op, req, res[1], res[2], db, 0, 0)

\* ------------------------------------------- the confirm handler of part_000

\* The document the confirm handler of src/unnamed/part_000 inserts: it names
\* name, email, image, experience and details only.
ApprovedDocPart000(applicant, id, now) ==
  TrainerDoc(id, applicant.name, applicant.email, undefinedNum, applicant.image,
             applicant.experience, applicant.details,
             undefinedList, undefinedList, undefinedList, undefined,
             "approved", undefined, now)

\* app.patch("/trainers/applications/:id/confirm") of src/unnamed/part_000; f is
\* the store operation that throws (0: none, 1: findOne, 2: insertOne, 3: deleteOne).
ApprovePart000(id, dt, f) ==
  LET op == "PATCH /trainers/applications/:id/confirm"
      err == "Failed to confirm trainer"
      applicant == FindOne(db.trainers, [_id |-> ObjectId(id)])
      inserted == InsertOne(db.trainers, ApprovedDocPart000(applicant[1], nextId, clock + dt))
  IN
  IF ~ValidObjectId(id) \/ f = 1
  THEN Catch(op, [id |-> id], err, db, 0, 0)
  ELSE IF applicant = <<>>
  THEN Reply(op, [id |-> id], 404, [error |-> "Applicant not found"], db, 0, 0)
  ELSE
    /\ nextId <= MaxId
    /\ IF f = 2
       THEN Catch(op, [id |-> id], err, db, 0, 0)
       ELSE IF f = 3
       THEN Catch(op, [id |-> id], err, [db EXCEPT !.trainers = inserted], 1, dt)
       ELSE Reply(op, [id |-> id], 200,
                  [success |-> TRUE, message |-> "Trainer approved and added"],
                  [db EXCEPT !.trainers = DeleteOne(inserted, [_id |-> ObjectId(id)])],
                  1, dt)

\* --------------------------------------- the confirm handler, await by await

\* A step of request c that leaves the observation of the last response alone.
Step(c, call, newdb, newIds, dt) ==
  /\ calls' = [calls EXCEPT ![c] = call]
  /\ db' = newdb
  /\ nextId' = nextId + newIds
  /\ clock' = clock + dt
  /\ UNCHANGED <<pre, last, tally>>

\* Request c enters the confirm handler and awaits its findOne: 404 when the
\* document is absent, 500 when new ObjectId(id) throws.
ApproveFind(c, id) ==
  LET applicant == FindOne(db.trainers, [_id |-> ObjectId(id)])
      call == [op |-> "PATCH /trainers/applications/:id/confirm", pc |-> "found",
               id |-> id, found |-> applicant, made |-> BadId, status |-> NoResponse]
  IN /\ calls[c].pc = "idle"
     /\ IF ~ValidObjectId(id)
        THEN Step(c, [call EXCEPT !.pc = "done", !.found = <<>>, !.status = 500], db, 0, 0)
        ELSE IF applicant = <<>>
        THEN Step(c, [call EXCEPT !.pc = "done", !.status = 404], db, 0, 0)
        ELSE Step(c, call, db, 0, 0)

\* A faulty variant: the copy is inserted only while the original is stored.
ApproveInsertIfPresent(trainers, applicant, newId, now) ==
  IF applicant._id \in Ids(trainers)
  THEN InsertOne(trainers, ApprovedDoc(applicant, newId, now))
  ELSE trainers

\* The trainers collection after the confirm handler's insertOne.
ApproveInsertWrites(trainers, applicant, newId, now) ==
  InsertOne(trainers, ApprovedDoc(applicant, newId, now))

\* Request c awaits the insertOne of the approved copy of the document it found.
ApproveInsert(c, dt) ==
  /\ calls[c].op = "PATCH /trainers/applications/:id/confirm"
  /\ calls[c].pc = "found"
  /\ nextId <= MaxId
  /\ Step(c, [calls[c] EXCEPT !.pc = "inserted", !.made = nextId],
          [db EXCEPT !.trainers = ApproveInsertWrites(@, calls[c].found[1], nextId, clock + dt)],
          1, dt)

\* Request c awaits its deleteOne, which deletes nothing when the document is
\* gone, and answers success.
ApproveDelete(c) ==
  /\ calls[c].op = "PATCH /trainers/applications/:id/confirm"
  /\ calls[c].pc = "inserted"
  /\ Step(c, [calls[c] EXCEPT !.pc = "done", !.status = 200],
          [db EXCEPT !.trainers = DeleteOne(@, [_id |-> ObjectId(calls[c].id)])], 0, 0)

\* --------------------------------- the remove-trainer handler, await by await

\* Request c enters the remove-trainer handler and awaits its findOne: 404
\* when the trainer is absent, 500 when new ObjectId(trainerId) throws.
DemoteFind(c, trainerId) ==
  LET trainer == FindOne(db.trainers, [_id |-> ObjectId(trainerId)])
      call == [op |-> "PATCH /trainers/:id/remove-trainer", pc |-> "found",
               id |-> trainerId, found |-> trainer, made |-> BadId, status |-> NoResponse]
  IN /\ calls[c].pc = "idle"
     /\ IF ~ValidObjectId(trainerId)
        THEN Step(c, [call EXCEPT !.pc = "done", !.found = <<>>, !.status = 500], db, 0, 0)
        ELSE IF trainer = <<>>
        THEN Step(c, [call EXCEPT !.pc = "done", !.status = 404], db, 0, 0)
        ELSE Step(c, call, db, 0, 0)

\* A faulty variant: the insert is skipped.
DemoteInsertNothing(users, trainer, newId, now) == users

\* The users collection after the remove-trainer handler's insertOne.
DemoteInsertWrites(users, trainer, newId, now) ==
  InsertOne(users, UserDoc(trainer, newId, now))

\* Request c awaits the insertOne of the user document for the trainer it found.
DemoteInsert(c, dt) ==
  /\ calls[c].op = "PATCH /trainers/:id/remove-trainer"
  /\ calls[c].pc = "found"
  /\ nextId <= MaxId
  /\ Step(c, [calls[c] EXCEPT !.pc = "inserted", !.made = nextId],
          [db EXCEPT !.users = DemoteInsertWrites(@, calls[c].found[1], nextId, clock + dt)],
          1, dt)

\* Request c awaits its deleteOne, which deletes nothing when the trainer is
\* gone, and answers success.
DemoteDelete(c) ==
  /\ calls[c].op = "PATCH /trainers/:id/remove-trainer"
  /\ calls[c].pc = "inserted"
  /\ Step(c, [calls[c] EXCEPT !.pc = "done", !.status = 200],
          [db EXCEPT !.trainers = DeleteOne(@, [_id |-> ObjectId(calls[c].id)])], 0, 0)

\* The store call request c awaits throws: the catch block answers 500 and
\* the calls after it are not made. pc records which call failed.
DemoteFail(c) ==
  /\ calls[c].op = "PATCH /trainers/:id/remove-trainer"
  /\ calls[c].pc \in {"found", "inserted"}
  /\ Step(c, [calls[c] EXCEPT !.status = 500,
                              !.pc = IF @ = "found" THEN "insert failed" ELSE "delete failed"],
          db, 0, 0)

\* ----------------------------------------- the POST /users handler, await by await

\* Request c enters the POST /users handler and awaits its findOne: 400 without
\* an email; a user that exists gets its role defaulted and is answered 200;
\* otherwise the handler goes on to its insertOne.
RegisterFind(c, user) ==
  LET existing == FindOne(db.users, [email |-> user.email])
      call == [op |-> "POST /users", pc |-> "absent", id |-> BadId, found |-> existing,
               made |-> BadId, status |-> NoResponse, body |-> user]
  IN /\ calls[c].pc = "idle"
     /\ IF Falsy(user.email)
        THEN Step(c, [call EXCEPT !.pc = "done", !.found = <<>>, !.status = 400], db, 0, 0)
        ELSE IF existing # <<>>
        THEN Step(c, [call EXCEPT !.pc = "done", !.status = 200],
                  [db EXCEPT !.users = IF Falsy(existing[1].role)
                                       THEN SetRoleMember(@, user.email) ELSE @], 0, 0)
        ELSE Step(c, call, db, 0, 0)

\* A faulty variant: the insert is refused when the email is already stored,
\* as under a unique index.
RegisterInsertUnique(users, user, newId) ==
  IF FindOne(users, [email |-> user.email]) # <<>> THEN users
  ELSE InsertOne(users, UserDocOf(user, newId))

\* The users collection after the POST /users handler's insertOne.
RegisterInsertWrites(users, user, newId) == InsertOne(users, UserDocOf(user, newId))

\* Request c, having found no user, awaits its insertOne and answers 201.
RegisterInsert(c) ==
  /\ calls[c].op = "POST /users"
  /\ calls[c].pc = "absent"
  /\ nextId <= MaxId
  /\ Step(c, [calls[c] EXCEPT !.pc = "done", !.made = nextId, !.status = 201],
          [db EXCEPT !.users = RegisterInsertWrites(@, calls[c].body, nextId)], 1, 0)

\* ------------------------------------------------------ a trainer's slots

\* {$push: {availableSlots: newSlot}}: the slot is appended; a document without
\* the field gets an array holding the slot.
Push(slots, newSlot) ==
  IF IsArray(slots) THEN Append(slots, newSlot) ELSE <<newSlot>>

\* app.patch("/trainers/:id/add-slot"): one updateOne; f is the store
\* operation that throws (0: none).
AddSlot(id, newSlot, f) ==
  LET op == "PATCH /trainers/:id/add-slot"
      req == [id |-> id, slot |-> newSlot]
      i == FirstIndex(db.trainers, [_id |-> ObjectId(id)])
  IN /\ i # 0 /\ IsArray(db.trainers[i].availableSlots)
          => Len(db.trainers[i].availableSlots) < MaxSlots
     /\ IF ~ValidObjectId(id) \/ f = 1
        THEN Catch(op, req, "Failed to add slot", db, 0, 0)
        ELSE IF i = 0
        THEN Reply(op, req, 404, [error |-> "Trainer not found"], db, 0, 0)
        ELSE Reply(op, req, 200, [success |-> TRUE, message |-> "Slot added successfully"],
                   [db EXCEPT !.trainers[i].availableSlots = Push(@, newSlot)], 0, 0)

\* Where Array.prototype.splice(start, 1) starts in an array of len elements
\* (0-based): an absent start counts as 0, a negative one counts from the end.
SpliceStart(len, start) ==
  IF start \in {undefinedNum, NaN} THEN 0
  ELSE IF start < 0 THEN (IF len + start < 0 THEN 0 ELSE len + start)
  ELSE IF start > len THEN len ELSE start

\* slots.splice(slotIndex, 1): the array without the element at that place,
\* the array itself when the place is past its end.
Splice(slots, slotIndex) ==
  LET k == SpliceStart(Len(slots), slotIndex) + 1
  IN [j \in 1..(IF k <= Len(slots) THEN Len(slots) - 1 ELSE Len(slots)) |->
        IF j < k THEN slots[j] ELSE slots[j + 1]]

\* A faulty variant: the element is taken out of the array the store holds at
\* the time of the write.
SpliceStored(read, stored, slotIndex) ==
  IF IsArray(stored) THEN Splice(stored, slotIndex) ELSE stored

\* The array remove-slot writes back with {$set: {availableSlots: ...}}: the
\* array it read, spliced; the array the store holds by then plays no part.
SpliceRead(read, stored, slotIndex) ==
  Splice(read, slotIndex)

\* Request c enters app.patch("/trainers/:id/remove-slot") and awaits its
\* findOne: 404 when the trainer is absent, 500 when new ObjectId(id) throws or
\* the trainer has no availableSlots array to splice.
RemoveSlotRead(c, id, slotIndex) ==
  LET trainer == FindOne(db.trainers, [_id |-> ObjectId(id)])
      call == [op |-> "PATCH /trainers/:id/remove-slot", pc |-> "read",
               id |-> id, found |-> trainer, made |-> BadId, status |-> NoResponse,
               slotIndex |-> slotIndex]
  IN /\ calls[c].pc = "idle"
     /\ IF ~ValidObjectId(id)
        THEN Step(c, [call EXCEPT !.pc = "done", !.found = <<>>, !.status = 500], db, 0, 0)
        ELSE IF trainer = <<>>
        THEN Step(c, [call EXCEPT !.pc = "done", !.status = 404], db, 0, 0)
        ELSE IF ~IsArray(trainer[1].availableSlots)
        THEN Step(c, [call EXCEPT !.pc = "done", !.status = 500], db, 0, 0)
        ELSE Step(c, call, db, 0, 0)

\* Request c awaits its updateOne, which sets availableSlots of the trainer
\* to the spliced array, and answers 200.
RemoveSlotWrite(c) ==
  LET i == FirstIndex(db.trainers, [_id |-> ObjectId(calls[c].id)])
  IN /\ calls[c].op = "PATCH /trainers/:id/remove-slot"
     /\ calls[c].pc = "read"
     /\ Step(c, [calls[c] EXCEPT !.pc = "done", !.status = 200],
             IF i = 0 THEN db
             ELSE [db EXCEPT !.trainers[i].availableSlots =
                     SpliceRead(calls[c].found[1].availableSlots, @, calls[c].slotIndex)],
             0, 0)

\* ------------------------------------------------------ specifications

\* Milliseconds that may go by between two requests: timestamps can tie.
Ticks == {0, 1}

\* Path parameters naming a document: 0 is malformed, the others well-formed.
PathIds == 0..MaxId

\* The trainer lifecycle on a store that does not fail.
Next ==
  \/ \E trainer \in TrainerBodies, dt \in Ticks : AddTrainer(trainer, dt, 0)
  \/ \E trainer \in ApplyBodies, dt \in Ticks : ApplyTrainer(trainer, dt, 0)
  \/ \E id \in PathIds, dt \in Ticks : Approve(id, dt, 0)
  \/ \E id \in PathIds, dt \in Ticks : RemoveTrainer(id, dt, 0)
  \/ \E id \in PathIds : GetTrainer(id, 0)

Spec == Init /\ [][Next]_vars

\* Users stored without a role: the registration handler's own branch
\* `if (!existingUser.role)` is there for them (accounts written to the shared
\* users collection before roles were assigned).
LegacyUser ==
  [_id |-> 1, name |-> "Old", email |-> "a@x", image |-> undefined,
   role |-> undefined, createdAt |-> undefinedNum]

\* The server starts on a users collection that is empty or holds a legacy user.
InitUsers ==
  /\ db \in {EmptyDb, [EmptyDb EXCEPT !.users = <<LegacyUser>>]}
  /\ nextId = Len(db.users) + 1
  /\ clock = 0
  /\ pre = db
  /\ last = NoRequest
  /\ tally = NoVotes
  /\ calls = NoCalls

\* Registration, with demoted trainers arriving in the users collection.
NextUsers ==
  \/ \E user \in UserBodies : RegisterUser(user, 0)
  \/ \E trainer \in ApplyBodies, dt \in Ticks : ApplyTrainer(trainer, dt, 0)
  \/ \E id \in PathIds, dt \in Ticks : RemoveTrainer(id, dt, 0)
  \/ GetUsers(0)

SpecUsers == InitUsers /\ [][NextUsers]_vars

\* Rejection of applications.
NextReject ==
  \/ \E trainer \in ApplyBodies, dt \in Ticks : ApplyTrainer(trainer, dt, 0)
  \/ \E id \in PathIds, feedback \in Feedbacks : Reject(id, feedback, 0)

SpecReject == Init /\ [][NextReject]_vars

\* Request bodies of POST /payments.
PaymentBodies ==
  {[userEmail |-> "a@x", trainerId |-> 1],
   [userEmail |-> "a@x", trainerId |-> BadId],
   [userEmail |-> "", trainerId |-> 1],
   [userEmail |-> "a@x", trainerId |-> undefinedNum]}

\* Every Create route, on a store that does not fail.
\* The bound of the Create specification.
FewCreated == nextId <= MaxCreated

NextCreate ==
  \/ \E user \in UserBodies : FewCreated /\ RegisterUser(user, 0)
  \/ \E testimonial \in TestimonialBodies, dt \in Ticks : FewCreated /\ AddTestimonial(testimonial, dt, 0)
  \/ \E newClass \in ClassBodies, dt \in Ticks : FewCreated /\ AddClass(newClass, dt, 0)
  \/ \E trainer \in TrainerBodies, dt \in Ticks : FewCreated /\ AddTrainer(trainer, dt, 0)
  \/ \E trainer \in ApplyBodies, dt \in Ticks : FewCreated /\ ApplyTrainer(trainer, dt, 0)
  \/ \E post \in ForumBodies : FewCreated /\ AddPost(post, 0)
  \/ \E review \in ReviewBodies, dt \in Ticks : FewCreated /\ AddReview(review, dt, 0)
  \/ \E body \in SubscribeBodies, dt \in Ticks : FewCreated /\ Subscribe(body, dt, 0)
  \/ \E payment \in PaymentBodies, dt \in Ticks : FewCreated /\ AddPayment(payment, dt, 0)

SpecCreate == Init /\ [][NextCreate]_vars

\* The vote directions the forum client sends.
VoteTypes == {"up", "down"}

\* Forum posts and votes on them.
NextForum ==
  \/ \E post \in ForumBodies : AddPost(post, 0)
  \/ \E postId \in PathIds, voteType \in VoteTypes : Vote(postId, voteType, 0)

SpecForum == Init /\ [][NextForum]_vars

\* Query parameters of GET /classes: absent, not a number, or a number.
PageParams == {undefined, "x", "1", "2", "3"}
LimitParams == {undefined, "1", "2"}
SearchParams == {undefined, "yo"}

\* Classes and their paginated listing.
NextClasses ==
  \/ \E newClass \in ClassBodies, dt \in Ticks : AddClass(newClass, dt, 0)
  \/ \E page \in PageParams, limit \in LimitParams, search \in SearchParams :
       GetClasses(page, limit, search, 0)

SpecClasses == Init /\ [][NextClasses]_vars

\* Request bodies of POST /payments for bookings: the trainerId names a
\* trainer in lower or upper case, names nothing, or is not an identifier.
BookingBodies == [userEmail : {"a@x", "b@x"}, trainerId : {1, -1, 2, BadId}]

\* Bookings, the trainers they refer to, and the user's booking list.
NextBookings ==
  \/ \E trainer \in TrainerBodies : AddTrainer(trainer, 0, 0)
  \/ \E trainer \in ApplyBodies : ApplyTrainer(trainer, 0, 0)
  \/ \E id \in PathIds : Approve(id, 0, 0)
  \/ \E id \in PathIds : RemoveTrainer(id, 0, 0)
  \/ \E payment \in BookingBodies, dt \in Ticks : AddPayment(payment, dt, 0)
  \/ \E email \in {"a@x", "b@x"} : GetUserBookings(email, 0)

SpecBookings == Init /\ [][NextBookings]_vars

\* Which store operation of a request fails: 0 none, k the k-th. Most handlers
\* make one store call, the join of a user's bookings two, a confirmation three.
Faults == {0, 1}
JoinFaults == 0..2
ApproveFaults == 0..3

\* Requests on a store whose operations may fail.
NextFaulty ==
  \/ \E trainer \in TrainerBodies, f \in Faults : AddTrainer(trainer, 0, f)
  \/ \E trainer \in ApplyBodies, f \in Faults : ApplyTrainer(trainer, 0, f)
  \/ \E id \in PathIds, f \in ApproveFaults : Approve(id, 0, f)
  \/ \E id \in PathIds, f \in Faults : GetTrainer(id, f)
  \/ \E payment \in PaymentBodies, f \in Faults : AddPayment(payment, 0, f)
  \/ \E email \in {"a@x"}, f \in JoinFaults : GetUserBookings(email, f)
  \/ \E email \in {"b@x", "t@x"}, f \in Faults : GetTrainerByEmail(email, f)
  \/ \E trainerId \in PathIds, f \in Faults : GetTrainerBookings(trainerId, f)
  \/ \E trainerId \in PathIds, slot \in {"s1"}, f \in Faults : DeleteSlot(trainerId, slot, f)

SpecFaulty == Init /\ [][NextFaulty]_vars

\* The e-mail addresses of lookups: of an added trainer, an applicant, nobody.
LookupEmails == {"b@x", "t@x", "n@x"}

\* Trainers, applications and the lookups of one document by id or e-mail.
NextLookup ==
  \/ \E trainer \in TrainerBodies : AddTrainer(trainer, 0, 0)
  \/ \E trainer \in ApplyBodies : ApplyTrainer(trainer, 0, 0)
  \/ \E id \in PathIds : GetTrainer(id, 0)
  \/ \E id \in PathIds : GetApplication(id, 0)
  \/ \E email \in LookupEmails : GetTrainerEmail(email, 0)
  \/ \E email \in LookupEmails : GetTrainerByEmail(email, 0)

SpecLookup == Init /\ [][NextLookup]_vars

\* Subscription requests: a name or none, three addresses or none.
NewsletterBodies == [name : {"Ann", ""}, email : {"a@x", "b@x", "c@x", undefined}]
SubscribeFaults == 0..2

\* Newsletter subscriptions, one request after another.
NextSubscribe ==
  \E body \in NewsletterBodies, dt \in Ticks, f \in SubscribeFaults : Subscribe(body, dt, f)

SpecSubscribe == Init /\ [][NextSubscribe]_vars

\* Request paths under /trainers, and the email query parameter.
TrainerPaths ==
  {<<"trainers">>, <<"trainers", "1">>, <<"trainers", "2">>, <<"trainers", "xyz">>,
   <<"trainers", "applications">>, <<"trainers", "applications", "pending">>,
   <<"trainers", "applications", "1">>, <<"trainers", "applications", "2">>}
EmailQueries == {undefined, "b@x", "t@x"}

\* Trainers, applications, and GET requests dispatched by path.
NextRoutes ==
  \/ \E trainer \in TrainerBodies : AddTrainer(trainer, 0, 0)
  \/ \E trainer \in ApplyBodies, dt \in Ticks : ApplyTrainer(trainer, dt, 0)
  \/ \E path \in TrainerPaths, email \in EmailQueries : Get(path, email)

SpecRoutes == Init /\ [][NextRoutes]_vars

\* Applications and the confirm handlers of both source files, on a store
\* whose operations may fail.
NextApprove ==
  \/ \E trainer \in TrainerBodies : AddTrainer(trainer, 0, 0)
  \/ \E trainer \in ApplyBodies : ApplyTrainer(trainer, 0, 0)
  \/ \E id \in PathIds, dt \in Ticks, f \in ApproveFaults : Approve(id, dt, f)
  \/ \E id \in PathIds, dt \in Ticks, f \in ApproveFaults : ApprovePart000(id, dt, f)

SpecApprove == Init /\ [][NextApprove]_vars

\* The trainer lifecycle: submit, approve, reject, and the removal of a slot.
NextLifecycle ==
  \/ \E trainer \in ApplyBodies : ApplyTrainer(trainer, 0, 0)
  \/ \E id \in PathIds, dt \in Ticks : Approve(id, dt, 0)
  \/ \E id \in PathIds, feedback \in Feedbacks : Reject(id, feedback, 0)
  \/ \E trainerId \in PathIds, slot \in {"s1"} : DeleteSlot(trainerId, slot, 0)

SpecLifecycle == Init /\ [][NextLifecycle]_vars

\* Every route that writes the trainers collection.
NextRoster ==
  \/ \E trainer \in TrainerBodies : AddTrainer(trainer, 0, 0)
  \/ \E trainer \in ApplyBodies : ApplyTrainer(trainer, 0, 0)
  \/ \E id \in PathIds : Approve(id, 0, 0)
  \/ \E id \in PathIds, feedback \in Feedbacks : Reject(id, feedback, 0)
  \/ \E id \in PathIds : RemoveTrainer(id, 0, 0)
  \/ \E trainerId \in PathIds, slot \in {"s1"} : DeleteSlot(trainerId, slot, 0)

SpecRoster == Init /\ [][NextRoster]_vars

\* Applications, and confirm requests whose store calls interleave.
NextApproveRace ==
  \/ \E trainer \in ApplyBodies, dt \in Ticks : ApplyTrainer(trainer, dt, 0)
  \/ \E c \in Calls, id \in PathIds : ApproveFind(c, id)
  \/ \E c \in Calls, dt \in Ticks : ApproveInsert(c, dt)
  \/ \E c \in Calls : ApproveDelete(c)

SpecApproveRace == Init /\ [][NextApproveRace]_vars

\* Trainers, and remove-trainer requests whose store calls interleave and may fail.
NextDemoteRace ==
  \/ \E trainer \in TrainerBodies : AddTrainer(trainer, 0, 0)
  \/ \E trainer \in ApplyBodies : ApplyTrainer(trainer, 0, 0)
  \/ \E c \in Calls, trainerId \in PathIds : DemoteFind(c, trainerId)
  \/ \E c \in Calls, dt \in Ticks : DemoteInsert(c, dt)
  \/ \E c \in Calls : DemoteDelete(c)
  \/ \E c \in Calls : DemoteFail(c)

SpecDemoteRace == Init /\ [][NextDemoteRace]_vars

\* Registrations whose store calls interleave.
NextRegisterRace ==
  \/ \E user \in UserBodies : RegisterUser(user, 0)
  \/ \E c \in Calls, user \in UserBodies : RegisterFind(c, user)
  \/ \E c \in Calls : RegisterInsert(c)

SpecRegisterRace == Init /\ [][NextRegisterRace]_vars

\* Accounts and the trainer lifecycle, one request at a time.
NextAccounts ==
  \/ \E user \in UserBodies : RegisterUser(user, 0)
  \/ \E trainer \in TrainerBodies : FewCreated /\ AddTrainer(trainer, 0, 0)
  \/ \E trainer \in ApplyBodies : FewCreated /\ ApplyTrainer(trainer, 0, 0)
  \/ \E id \in PathIds : Approve(id, 0, 0)
  \/ \E id \in PathIds, feedback \in Feedbacks : Reject(id, feedback, 0)
  \/ \E id \in PathIds : RemoveTrainer(id, 0, 0)

SpecAccounts == Init /\ [][NextAccounts]_vars

\* Slots a request body can carry, the places remove-slot can be asked for and
\* the ids slot requests name.
SlotBodies == {"s1", "s2"}

SlotIndexes == {0, 1, -1, undefinedNum}

SlotIds == {BadId, 1}

\* Slot requests on one submitted or directly added trainer, beside one
\* remove-slot request in flight.
NextSlots ==
  \/ \E trainer \in ApplyBodies : nextId = 1 /\ ApplyTrainer(trainer, 0, 0)
  \/ \E trainer \in TrainerBodies : nextId = 1 /\ AddTrainer(trainer, 0, 0)
  \/ \E id \in SlotIds, newSlot \in SlotBodies : AddSlot(id, newSlot, 0)
  \/ \E id \in SlotIds, slot \in SlotBodies : DeleteSlot(id, slot, 0)
  \/ \E id \in SlotIds, slotIndex \in SlotIndexes : RemoveSlotRead(1, id, slotIndex)
  \/ RemoveSlotWrite(1)

SpecSlots == Init /\ [][NextSlots]_vars

\* ------------------------------------------------------------------ claims

ApproveOp == "PATCH /trainers/applications/:id/confirm"
RemoveOp == "PATCH /trainers/:id/remove-trainer"

\* The last request was an Approve that ran to completion on a document that
\* was pending when the request arrived.
ApprovedPending ==
  /\ last.op = ApproveOp
  /\ last.status = 200
  /\ \E app \in Range(pre.trainers) :
       app._id = ObjectId(last.req.id) /\ app.status = "pending"

\* C1: after an Approve that ran to completion on an existing pending
\* application, the pending list holds no document with the application's id
\* and the trainer list holds a new document with status "approved" and the
\* application's name and email.
C1_ApprovePromotes ==
  ApprovedPending =>
    \A app \in Range(pre.trainers) :
      app._id = ObjectId(last.req.id) =>
        /\ \A d \in Range(PendingApps(db)) : d._id # app._id
        /\ \A list \in TrainerLists(db) :
             \E t \in Range(list) :
               /\ t._id \notin Ids(pre.trainers)
               /\ t.status = "approved"
               /\ t.name = app.name
               /\ t.email = app.email

C1_Witness == ApprovedPending

\* The last request was a Demote that ran to completion.
Demoted == last.op = RemoveOp /\ last.status = 200

\* C2: after a Demote that ran to completion on an existing trainer id,
\* GET /trainers/:id answers not-found for that id and the users collection
\* holds a document with the trainer's email and role "member".
C2_DemoteMoves ==
  Demoted =>
    \A trainer \in Range(FindOne(pre.trainers, [_id |-> ObjectId(last.req.id)])) :
      /\ TrainerById(db, last.req.id)[1] = 404
      /\ \E u \in Range(db.users) : u.email = trainer.email /\ u.role = "member"

C2_Witness ==
  /\ Demoted
  /\ \E trainer \in Range(pre.trainers) :
       trainer._id = ObjectId(last.req.id) /\ trainer.status = "approved"


RegisterOp == "POST /users"
RejectOp == "PATCH /trainers/applications/:id/reject"

\* The last request registered an email that a user document already had.
RegisteredAgain ==
  /\ last.op = RegisterOp
  /\ ~Falsy(last.req.email)
  /\ FirstIndex(pre.users, [email |-> last.req.email]) # 0

\* What a registration of an existing email should leave of that document.
WithRole(existing) ==
  IF Falsy(existing.role) THEN [existing EXCEPT !.role = "member"] ELSE existing

\* C3: POST /users with an email that a user document already has (as on the
\* second of two registrations) answers 200 with that document and inserts
\* nothing; a document that had no role gets role "member" in the store and in
\* the response, and nothing else changes.
C3_RegisterTwice ==
  RegisteredAgain =>
    LET i == FirstIndex(pre.users, [email |-> last.req.email])
    IN /\ last.status = 200
       /\ last.body.user = WithRole(pre.users[i])
       /\ db = [pre EXCEPT !.users[i] = WithRole(pre.users[i])]

\* The legacy user got its role from an earlier registration, and this one,
\* the second, answered with the stored document.
C3_Witness ==
  /\ RegisteredAgain
  /\ last.status = 200
  /\ pre.users[1] = [LegacyUser EXCEPT !.role = "member"]
  /\ last.body.user = pre.users[1]

\* The last request rejected a well-formed id that no trainer document had.
RejectedMissing ==
  /\ last.op = RejectOp
  /\ ValidObjectId(last.req.id)
  /\ FindOne(pre.trainers, [_id |-> ObjectId(last.req.id)]) = <<>>

\* C6: Reject with a well-formed id that matches no document answers 404 and
\* leaves every collection unchanged.
C6_RejectMissing == RejectedMissing => (last.status = 404 /\ db = pre)

C6_Witness == RejectedMissing /\ pre.trainers # <<>> /\ last.status = 404


\* A required field that is missing or empty in a request body.
Absent(v) == v \in {undefined, ""}

\* The Create routes: the collection each writes, the request fields the stored
\* document carries, and the status each answers on success.
CreateRoutes ==
  [op : {"POST /users"}, coll : {"users"}, fields : {{"name", "email"}}, status : {201}]
  \cup [op : {"POST /testimonials"}, coll : {"testimonials"},
        fields : {{"name", "review", "role"}}, status : {201}]
  \cup [op : {"POST /classes"}, coll : {"classes"},
        fields : {{"name", "image", "details"}}, status : {201}]
  \cup [op : {"POST /trainers"}, coll : {"trainers"},
        fields : {{"name", "email", "image", "experience", "status"}}, status : {201}]
  \cup [op : {"POST /trainers/apply"}, coll : {"trainers"},
        fields : {{"name", "email", "image"}}, status : {200}]
  \cup [op : {"POST /forum"}, coll : {"forum"},
        fields : {{"title", "upvotes", "downvotes"}}, status : {200}]
  \cup [op : {"POST /reviews"}, coll : {"reviews"},
        fields : {{"trainerId", "text"}}, status : {200}]
  \cup [op : {"POST /newsletter/subscribe"}, coll : {"subscriber"},
        fields : {{"name", "email"}}, status : {200}]
  \cup [op : {"POST /payments"}, coll : {"bookings"},
        fields : {{"userEmail", "trainerId"}}, status : {201}]

\* The last request was a Create whose required fields were all present (and,
\* for users and subscribers, whose email was new).
Created ==
  \/ last.op = "POST /users" /\ ~Absent(last.req.email)
       /\ FirstIndex(pre.users, [email |-> last.req.email]) = 0
  \/ last.op = "POST /testimonials" /\ ~Absent(last.req.name) /\ ~Absent(last.req.review)
  \/ last.op = "POST /classes" /\ ~Absent(last.req.name) /\ ~Absent(last.req.image)
       /\ ~Absent(last.req.details)
  \/ last.op = "POST /trainers" /\ ~Absent(last.req.name) /\ ~Absent(last.req.image)
       /\ last.req.experience > 0
  \/ last.op \in {"POST /trainers/apply", "POST /forum", "POST /reviews"}
  \/ last.op = "POST /newsletter/subscribe" /\ ~Absent(last.req.name)
       /\ ~Absent(last.req.email)
       /\ FirstIndex(pre.subscriber, [email |-> last.req.email]) = 0
  \/ last.op = "POST /payments" /\ ~Absent(last.req.userEmail)
       /\ last.req.trainerId # undefinedNum

\* Every answer the List/Get route of a collection may give on the store: GET
\* /users, /testimonials, /classes and /forum (first page, default size),
\* /trainers, /reviews, /newsletter/subscribers, /bookings/trainer/:trainerId.
Listings(coll) ==
  CASE coll = "users" -> {db.users}
    [] coll = "testimonials" -> TestimonialLists(db)
    [] coll = "classes" -> {r.data : r \in ClassPages(db, undefined, undefined, undefined)}
    [] coll = "trainers" -> TrainerLists(db)
    [] coll = "forum" -> {r.posts : r \in ForumPages(db, undefined)}
    [] coll = "reviews" -> ReviewLists(db)
    [] coll = "subscriber" -> SubscriberLists(db)
    [] coll = "bookings" -> {Find(db.bookings, [trainerId |-> last.req.trainerId])}

\* The entity the last request created is in every answer of its List/Get route.
Retrievable(route) ==
  \A list \in Listings(route.coll) :
    \E doc \in Range(list) :
      /\ doc._id \notin Ids(pre[route.coll])
      /\ \A k \in route.fields : doc[k] = last.req[k]

\* C4 as claimed: every valid Create is answered 201 and the entity is
\* returned afterwards by the List/Get route.
C4_AllCreated201 ==
  Created => \A route \in CreateRoutes :
               route.op = last.op => (last.status = 201 /\ Retrievable(route))

\* C4, amended: every valid Create is answered with its success status (201 for
\* users, testimonials, classes, trainers and payments; 200 for applications,
\* forum posts, reviews and subscriptions) and the entity is returned
\* afterwards by the List/Get route.
C4_CreatedAndListed ==
  Created => \A route \in CreateRoutes :
               route.op = last.op => (last.status = route.status /\ Retrievable(route))

C4_Witness ==
  /\ Created
  /\ last.op = "POST /newsletter/subscribe"
  /\ last.status = 200
  /\ \E s \in Range(db.subscriber) : s.email = last.req.email

\* The last request was a Create of the uniform contract with a required field
\* missing or empty.
MissingRequired ==
  \/ last.op = "POST /users" /\ Absent(last.req.email)
  \/ last.op = "POST /testimonials" /\ (Absent(last.req.name) \/ Absent(last.req.review))
  \/ last.op = "POST /classes"
       /\ (Absent(last.req.name) \/ Absent(last.req.image) \/ Absent(last.req.details))
  \/ last.op = "POST /newsletter/subscribe"
       /\ (Absent(last.req.name) \/ Absent(last.req.email))
  \/ last.op = "POST /payments"
       /\ (Absent(last.req.userEmail) \/ last.req.trainerId = undefinedNum)

\* C5: a Create request with a required field missing or empty is answered 400
\* and leaves every collection unchanged.
C5_MissingField400 == MissingRequired => (last.status = 400 /\ db = pre)

C5_Witness ==
  /\ MissingRequired
  /\ last.op = "POST /payments"
  /\ last.status = 400
  /\ pre # EmptyDb


VoteOp == "PATCH /forum/:id/vote"

\* A counter as a number: an absent counter is 0.
Val(n) == IF n = undefinedNum THEN 0 ELSE n

\* The last request was a vote, answered with success, on a post that existed.
Voted ==
  /\ last.op = VoteOp
  /\ last.status = 200
  /\ FirstIndex(pre.forum, [_id |-> ObjectId(last.req.id)]) # 0

\* C7: a vote on an existing post adds exactly 1 to the counter of its
\* direction and changes nothing else in the store; and in every reachable
\* state each post's upvotes and downvotes equal the number of up and of down
\* votes answered with success for it, so no vote is lost in any sequence.
C7_VotesCount ==
  /\ Voted =>
       LET i == FirstIndex(pre.forum, [_id |-> ObjectId(last.req.id)])
       IN IF last.req.voteType = "up"
          THEN db = [pre EXCEPT !.forum[i].upvotes = Val(@) + 1]
          ELSE db = [pre EXCEPT !.forum[i].downvotes = Val(@) + 1]
  /\ \A post \in Range(db.forum) :
       /\ Val(post.upvotes) = tally[post._id].up
       /\ Val(post.downvotes) = tally[post._id].down

\* Two up votes and one down vote were counted for a post, next to another post.
C7_Witness ==
  /\ Voted
  /\ Len(db.forum) >= 2
  /\ \E post \in Range(db.forum) :
       tally[post._id].up = 2 /\ tally[post._id].down = 1 /\ post.upvotes = 2


ClassesOp == "GET /classes"

\* The last request listed a page of classes.
ListedClasses == last.op = ClassesOp /\ last.status = 200

\* The spelling of page number p as a query parameter.
PageParam(p) == CASE p = 1 -> "1" [] p = 2 -> "2" [] p = 3 -> "3" [] p = 4 -> "4"

\* The smaller of two numbers.
Min(a, b) == IF a < b THEN a ELSE b

\* The part of C8 about one response: the page holds at most limit items, those
\* at positions (page-1)*limit .. page*limit-1 of a newest-first order of the
\* matching classes, with currentPage, totalClasses and totalPages as claimed,
\* page defaulting to 1 and limit to 6.
C8_OnePage ==
  ListedClasses =>
    LET page  == IF last.req.page \in {undefined, "x"} THEN 1 ELSE ParseInt(last.req.page)
        limit == IF last.req.limit = undefined THEN 6 ELSE ParseInt(last.req.limit)
        matching == {c \in Range(db.classes) :
                       last.req.search = undefined \/ RegexMatchI(c.name, last.req.search)}
        total == Cardinality(matching)
        data  == last.body.data
        first == (page - 1) * limit
    IN /\ Len(data) <= limit
       /\ Len(data) = IF total > first THEN Min(limit, total - first) ELSE 0
       /\ Range(data) \subseteq matching
       /\ Cardinality(Range(data)) = Len(data)
       /\ \A i, j \in 1..Len(data) : i < j => data[i].createdAt >= data[j].createdAt
       /\ \A i \in 1..Len(data) :
            /\ Cardinality({c \in matching : c.createdAt > data[i].createdAt}) < first + i
            /\ Cardinality({c \in matching : c.createdAt >= data[i].createdAt}) >= first + i
       /\ last.body.currentPage = page
       /\ last.body.totalClasses = total
       /\ last.body.totalPages = Ceil(total, limit)

\* The part of C8 about all pages: on an unchanging store, whatever the
\* responses to pages 1..totalPages are, no class is on two of them; as the
\* page sizes add up to totalClasses, every matching class is then on exactly one.
C8_PagesDisjoint ==
  \A limit \in LimitParams \ {undefined}, search \in SearchParams :
    LET totalPages == Ceil(Len(MatchingClasses(db, search)), ParseInt(limit))
    IN \A p, q \in 1..totalPages :
         p < q =>
           \A bp \in ClassPages(db, PageParam(p), limit, search),
              bq \in ClassPages(db, PageParam(q), limit, search) :
             Ids(bp.data) \cap Ids(bq.data) = {}

\* C8: GET /classes with page >= 1 and limit >= 1 answers at most limit items,
\* those at positions (page-1)*limit .. page*limit-1 of the matching classes
\* newest first, with currentPage = page, totalClasses the number of matching
\* classes and totalPages = ceil(totalClasses/limit), page defaulting to 1 and
\* limit to 6; and pages 1..totalPages contain every matching class exactly once.
C8_Pagination == C8_OnePage /\ C8_PagesDisjoint


BookingsOp == "GET /bookings/user/:email"

\* The bookings of the user the last request asked for.
BookingsOf(email) ==
  {b \in Range(db.bookings) : b.userEmail = email /\ b.status = "success"}

\* The response lists each booking of the user once, newest first, each with
\* the trainer whose id is the booking's trainerId, or null.
BookingsListed ==
  /\ last.status = 200
  /\ Len(last.body) = Cardinality(BookingsOf(last.req.email))
  /\ {e.booking : e \in Range(last.body)} = BookingsOf(last.req.email)
  /\ \A i, j \in 1..Len(last.body) :
       i < j => last.body[i].booking.createdAt >= last.body[j].booking.createdAt
  /\ \A e \in Range(last.body) :
       IF \E t \in Range(db.trainers) : t._id = e.booking.trainerId
       THEN e.trainerDetails \in Range(db.trainers)
            /\ e.trainerDetails._id = e.booking.trainerId
       ELSE e.trainerDetails = null

\* C9: GET /bookings/user/:email answers one entry per booking of that user
\* with status success, newest first, each with the trainer document whose id
\* equals the booking's trainerId as a string, or null when there is none; a
\* trainerId that matches no trainer, also one that is no identifier at all,
\* never turns the response into an error.
C9_UserBookings == last.op = BookingsOp => BookingsListed

\* The same when every booking of the user holds an identifier as trainerId.
C9_WhenIdentifiers ==
  (last.op = BookingsOp /\ \A b \in BookingsOf(last.req.email) : ValidObjectId(b.trainerId))
    => BookingsListed

\* A listing that joined a trainer, a dangling reference and an upper-case one.
C9_JoinedAndDangling ==
  /\ last.op = BookingsOp
  /\ last.status = 200
  /\ \E e \in Range(last.body) : e.trainerDetails # null
  /\ \E e \in Range(last.body) : e.trainerDetails = null /\ e.booking.trainerId > 0


\* The handlers whose store calls are not inside a try block.
UnguardedOps ==
  {"GET /trainers/by-email/:email", "GET /bookings/trainer/:trainerId",
   "DELETE /trainers/:trainerId/slots"}

\* The last request was answered, with the generic server error.
Answered500 == last.status = 500 /\ "error" \in DOMAIN last.body

\* C10: whenever a store operation of a request failed, by a store exception
\* or a malformed identifier, the request ended with a response, and that
\* response is a generic 500 error; no request is left without a response.
C10_FailureAnswered500 == last.threw => Answered500

\* The same for the handlers that wrap their store calls in try/catch.
C10_GuardedAnswered500 == (last.threw /\ last.op \notin UnguardedOps) => Answered500

\* A failed store operation in an unguarded handler that left the request unanswered.
C10_Unanswered == last.threw /\ last.op \in UnguardedOps /\ last.status = NoResponse


\* The lookups by id and the lookups by e-mail.
IdLookups == {"GET /trainers/:id", "GET /trainers/applications/:id"}
EmailLookups == {"GET /trainers/email/:email", "GET /trainers/by-email/:email"}

\* The trainer documents the key of the last lookup matches.
KeyMatches ==
  IF last.op \in IdLookups
  THEN {t \in Range(db.trainers) : t._id = ObjectId(last.req.id)}
  ELSE {t \in Range(db.trainers) : t.email = last.req.email}

\* The last request was a lookup by a well-formed key.
LookedUp ==
  \/ last.op \in IdLookups /\ ValidObjectId(last.req.id)
  \/ last.op \in EmailLookups

\* C11: every lookup by id or by e-mail answers 404 when no document matches
\* the key, and 200 with the matching document otherwise.
C11_LookupFoundOr404 ==
  LookedUp =>
    IF KeyMatches = {}
    THEN last.status = 404
    ELSE last.status = 200 /\ last.body \in KeyMatches

\* The same for the two lookups that test the document before answering.
C11_TrainerLookups ==
  (LookedUp /\ last.op \in {"GET /trainers/:id", "GET /trainers/email/:email"}) =>
    IF KeyMatches = {}
    THEN last.status = 404
    ELSE last.status = 200 /\ last.body \in KeyMatches

\* A lookup by an e-mail no trainer has was answered 200 with null.
C11_NullFor200 ==
  /\ last.op = "GET /trainers/by-email/:email"
  /\ KeyMatches = {}
  /\ last.status = 200
  /\ last.body = null


\* The feedback a rejection stores: the supplied one, or the fixed placeholder.
StoredFeedback(feedback) == IF Absent(feedback) THEN "No feedback provided" ELSE feedback

\* The last request rejected a well-formed id.
Rejected == last.op = RejectOp /\ ValidObjectId(last.req.id)

\* The trainer documents with the id of the last request, before and after it.
RejectedBefore == {t \in Range(pre.trainers) : t._id = ObjectId(last.req.id)}
RejectedAfter == {t \in Range(db.trainers) : t._id = ObjectId(last.req.id)}

\* C12: Reject answers not-found exactly when no document has the id; for a
\* document that exists, whatever its status and feedback, also one already
\* rejected with the same feedback, Reject answers success and the document
\* then has status rejected and the supplied feedback, or the placeholder.
C12_RejectExisting ==
  Rejected =>
    /\ (last.status = 404) <=> (RejectedBefore = {})
    /\ RejectedBefore # {} =>
         /\ last.status = 200
         /\ \A t \in RejectedAfter :
              t.status = "rejected" /\ t.feedback = StoredFeedback(last.req.feedback)

\* The same for a document the rejection changes.
C12_RejectChanging ==
  (Rejected /\ RejectedBefore # {} /\ RejectedBefore # RejectedAfter) =>
    /\ last.status = 200
    /\ \A t \in RejectedAfter :
         t.status = "rejected" /\ t.feedback = StoredFeedback(last.req.feedback)

\* A rejection of a document already rejected with the same feedback: 404.
C12_RejectedAgain ==
  /\ Rejected
  /\ RejectedBefore # {}
  /\ RejectedBefore = RejectedAfter
  /\ last.status = 404


ApplyOp == "POST /trainers/apply"

\* The last request submitted an application, and the documents it inserted.
Submitted == last.op = ApplyOp /\ last.status = 200
SubmittedDocs == {t \in Range(db.trainers) : t._id = last.body.insertedId}

\* The inserted application is pending and in the pending list.
SubmittedPending ==
  /\ SubmittedDocs # {}
  /\ \A t \in SubmittedDocs : t.status = "pending" /\ t \in Range(PendingApps(db))

\* C13: every document inserted by POST /trainers/apply has status pending,
\* whatever the payload holds, also a status field of its own, and so is in
\* the pending list.
C13_SubmitPending == Submitted => SubmittedPending

\* The same for a payload that carries no status.
C13_SubmitNoStatus == (Submitted /\ Absent(last.req.status)) => SubmittedPending

\* An application submitted with status approved was stored as approved.
C13_SelfApproved ==
  /\ Submitted
  /\ last.req.status = "approved"
  /\ \E t \in SubmittedDocs : t.status = "approved"


SubscribeOp == "POST /newsletter/subscribe"

\* The last request asked to subscribe an address that had a subscriber
\* document, and the store did not fail.
SubscribedAgain ==
  /\ last.op = SubscribeOp
  /\ ~last.threw
  /\ ~Absent(last.req.name)
  /\ \E s \in Range(pre.subscriber) : s.email = last.req.email

\* C14: POST /newsletter/subscribe with an address that already has a
\* subscriber document answers 409 and leaves the store unchanged; and with
\* requests running one after another no two subscriber documents share an
\* address.
C14_SubscribeOnce ==
  /\ SubscribedAgain => (last.status = 409 /\ db = pre)
  /\ \A i, j \in 1..Len(db.subscriber) :
       i # j => db.subscriber[i].email # db.subscriber[j].email

\* A second subscription of an address was refused while others subscribed.
C14_Witness ==
  /\ SubscribedAgain
  /\ last.status = 409
  /\ Len(db.subscriber) >= 2


\* The last request was GET /trainers/applications, dispatched by its path.
AskedApplications ==
  /\ last.op \in {GetRoutes[i].op : i \in 1..Len(GetRoutes)}
  /\ last.req.path = <<"trainers", "applications">>

\* C15: GET /trainers/applications?email=e, dispatched through the routes in
\* their registration order, is answered by the list-by-applicant-email
\* handler: exactly the trainer documents whose email is e, newest first, and
\* 400 when email is missing; never by another handler such as GET /trainers/:id.
C15_ApplicationsRouted ==
  AskedApplications =>
    /\ last.op = "GET /trainers/applications"
    /\ IF Absent(last.req.email)
       THEN last.status = 400
       ELSE /\ last.status = 200
            /\ last.body \in SortByCreatedAtDesc(Find(db.trainers, [email |-> last.req.email]))

\* The path of every other request here runs the handler registered for it.
C15_OtherPaths ==
  /\ Dispatch(<<"trainers">>) = "GET /trainers"
  /\ Dispatch(<<"trainers", "applications", "pending">>) = "GET /trainers/applications/pending"
  /\ Dispatch(<<"trainers", "applications", "1">>) = "GET /trainers/applications/:id"
  /\ Dispatch(<<"trainers", "1">>) = "GET /trainers/:id"

\* GET /trainers/applications for an applicant who has applied was answered
\* by the handler of GET /trainers/:id.
C15_Shadowed ==
  /\ AskedApplications
  /\ last.op = "GET /trainers/:id"
  /\ last.status \in {404, 500}
  /\ \E t \in Range(db.trainers) : t.email = last.req.email


\* The fields of an application that approval carries over as they are, and
\* those that are lists.
CarriedFields == {"name", "email", "age", "image", "experience", "details"}
ListFields == {"expertise", "availableDays", "availableSlots"}

\* Document `t` carries every listed field of application `app`: lists that
\* the application lacks are empty, socials are kept when the application has them.
CarriesOver(app, t) ==
  /\ \A k \in CarriedFields : t[k] = app[k]
  /\ \A k \in ListFields : t[k] = IF IsArray(app[k]) THEN app[k] ELSE <<>>
  /\ ~Absent(app.socials) => t.socials = app.socials

\* The documents the last request inserted into the trainers collection.
InsertedTrainers == {t \in Range(db.trainers) : t._id \notin Ids(pre.trainers)}

\* C16: every confirm handler builds the approved document by carrying over
\* name, email, age, image, experience, details, expertise, availableDays,
\* availableSlots and socials of the application, absent lists as empty
\* lists, with status approved and a fresh timestamp, and deletes the original
\* only after that insert.
C16_ApproveCarriesAll ==
  last.op = ApproveOp =>
    \A app \in Range(pre.trainers) :
      app._id = ObjectId(last.req.id) =>
        /\ last.status = 200 =>
             /\ app._id \notin Ids(db.trainers)
             /\ InsertedTrainers # {}
        /\ app._id \notin Ids(db.trainers) => InsertedTrainers # {}
        /\ \A t \in InsertedTrainers :
             CarriesOver(app, t) /\ t.status = "approved" /\ t.createdAt = clock

\* An approval of an application with an age and available days inserted a
\* document without them.
C16_FieldsDropped ==
  /\ last.op = ApproveOp
  /\ last.status = 200
  /\ \E app \in Range(pre.trainers), t \in InsertedTrainers :
       /\ app._id = ObjectId(last.req.id)
       /\ app.age = 30
       /\ t.age = undefinedNum
       /\ t.availableDays # app.availableDays


\* Every document that was approved before the last request and is still
\* stored is still approved.
ApprovedStays ==
  \A t \in Range(pre.trainers), u \in Range(db.trainers) :
    (t.status = "approved" /\ u._id = t._id) => u.status = "approved"

\* The last request was an Approve that inserted an approved document, and
\* the documents it copied.
ApprovedAny == last.op = ApproveOp /\ last.status = 200
ApprovedFrom == {t \in Range(pre.trainers) : t._id = ObjectId(last.req.id)}

\* C17: approved is terminal and entered only from pending: no Submit,
\* Approve, Reject or slot operation gives a document that has status approved
\* another status, and Approve produces an approved document only from a
\* document whose status was pending.
C17_ApprovedTerminal ==
  /\ ApprovedStays
  /\ ApprovedAny => \A t \in ApprovedFrom : t.status = "pending"

\* The part of C17 that holds: submissions and slot removals leave the status
\* of approved documents alone.
C17_OtherOpsKeepApproved ==
  last.op \in {ApplyOp, "DELETE /trainers/:trainerId/slots"} => ApprovedStays

\* A Reject turned an approved document into a rejected one.
C17_ApprovedRejected ==
  /\ last.op = RejectOp
  /\ \E t \in Range(pre.trainers), u \in Range(db.trainers) :
       t.status = "approved" /\ u._id = t._id /\ u.status = "rejected"

\* An Approve made an approved document from a rejected one.
C17_RejectedApproved ==
  /\ ApprovedAny
  /\ \E t \in ApprovedFrom : t.status = "rejected"


\* The statuses of the trainer lifecycle.
Statuses == {"pending", "approved", "rejected"}

\* C18: in every state reached from the empty store by POST /trainers,
\* Submit, Approve, Reject, Demote and slot operations, every document of the
\* trainers collection has a status that is pending, approved or rejected.
C18_StatusKnown == \A t \in Range(db.trainers) : t.status \in Statuses

\* The part of C18 that holds: what Approve inserts and what Reject updates
\* has a status of the lifecycle.
C18_WrittenStatusKnown ==
  /\ (last.op = ApproveOp /\ last.status = 200) =>
       \A t \in Range(db.trainers) : t._id \notin Ids(pre.trainers) => t.status \in Statuses
  /\ (last.op = RejectOp /\ last.status = 200) =>
       \A t \in Range(db.trainers) : t._id = ObjectId(last.req.id) => t.status \in Statuses

\* POST /trainers stored a document without a status.
C18_NoStatus ==
  /\ last.op = "POST /trainers"
  /\ last.status = 201
  /\ \E t \in Range(db.trainers) : t._id = last.body.insertedId /\ t.status = undefined


\* Both requests are confirm requests for the same application, which was
\* pending, and each found it: both lookups ran before either delete.
BothFound ==
  /\ \A c \in Calls : calls[c].op = ApproveOp /\ calls[c].found # <<>>
  /\ calls[1].id = calls[2].id
  /\ calls[1].found[1].status = "pending"

\* The approved documents in the store that request c inserted as copies of
\* the application it found.
CopyOf(c) ==
  {t \in Range(db.trainers) :
     /\ t._id = calls[c].made
     /\ t.status = "approved"
     /\ t.name = calls[c].found[1].name
     /\ t.email = calls[c].found[1].email}

\* C19: Approve is not atomic: when two Approve requests for the same pending
\* application both look it up before either deletes it, both answer success
\* and the trainers collection ends with two approved documents copied from
\* the one application.
C19_DoubleApprove ==
  (BothFound /\ \A c \in Calls : calls[c].pc = "done") =>
    /\ \A c \in Calls : calls[c].status = 200 /\ CopyOf(c) # {}
    /\ calls[1].made # calls[2].made
    /\ calls[1].found[1]._id \notin Ids(db.trainers)

\* Two interleaved Approve requests have both answered.
C19_Witness ==
  /\ BothFound
  /\ \A c \in Calls : calls[c].pc = "done" /\ calls[c].status = 200
  /\ Len(db.trainers) = 2


\* Request c is a Demote that found its trainer.
Demoting(c) == calls[c].op = RemoveOp /\ calls[c].found # <<>>

\* Request c is a Demote that failed between its two steps: its insertOne was
\* made and its deleteOne threw.
FailedBetween(c) == Demoting(c) /\ calls[c].pc = "delete failed"

\* The user documents in the store that request c inserted for its trainer.
UserMadeBy(c) ==
  {u \in Range(db.users) :
     u._id = calls[c].made /\ u.email = calls[c].found[1].email /\ u.role = "member"}

\* The trainer request c found is gone from the roster.
TrainerGone(c) == calls[c].found[1]._id \notin Ids(db.trainers)

BothAbsent ==
  /\ \A c \in Calls :
       /\ calls[c].op = RegisterOp
       /\ ~Absent(calls[c].body.email)
       /\ calls[c].found = <<>>
       /\ calls[c].pc = "done"
  /\ calls[1].body.email = calls[2].body.email

\* The user document request c inserted.
UserInsertedBy(c) ==
  {u \in Range(db.users) : u._id = calls[c].made /\ u.email = calls[c].body.email}

\* C21: registration is a find-then-insert that is not atomic: two POST
\* /users requests with the same unregistered email that both find no user
\* both insert and both answer 201, leaving two user documents with that email.
C21_DoubleRegister ==
  BothAbsent =>
    /\ \A c \in Calls : calls[c].status = 201 /\ UserInsertedBy(c) # {}
    /\ calls[1].made # calls[2].made
    /\ Cardinality({i \in 1..Len(db.users) : db.users[i].email = calls[1].body.email}) >= 2

\* Two registrations of one email have both inserted.
C21_Witness ==
  /\ BothAbsent
  /\ \A c \in Calls : calls[c].pc = "done" /\ calls[c].status = 201
  /\ Len(db.users) = 2


\* No two documents of a users collection hold the same email.
UniqueEmails(users) ==
  \A i, j \in 1..Len(users) : i # j => users[i].email # users[j].email

\* C22: with requests executed one at a time from the empty store, no
\* sequence of register, submit, approve, reject and demote leaves two
\* documents of the users collection with the same email.
C22_EmailUnique == UniqueEmails(db.users)

\* The part of C22 that holds: a registration never adds a second document
\* for an email.
C22_RegisterKeepsUnique ==
  (last.op = RegisterOp /\ UniqueEmails(pre.users)) => UniqueEmails(db.users)

\* A Demote inserted a user document for an email that a user already had.
C22_DemoteDuplicates ==
  /\ last.op = RemoveOp
  /\ last.status = 200
  /\ UniqueEmails(pre.users)
  /\ ~UniqueEmails(db.users)


AddSlotOp == "PATCH /trainers/:id/add-slot"

RemoveSlotOp == "PATCH /trainers/:id/remove-slot"

DeleteSlotOp == "DELETE /trainers/:trainerId/slots"

\* The step is the write-back of remove-slot request c.
WritesBack(c) ==
  /\ calls[c].op = RemoveSlotOp
  /\ calls[c].pc = "read"
  /\ calls'[c].pc = "done"

\* The step is a whole request of route op that answered 200.
Serves(op) ==
  /\ calls' = calls
  /\ last'.op = op
  /\ last'.status = 200

\* The write-back of request c leaves the array c read, less the element at
\* the place asked for: a slot stored since the read is gone, whatever it is.
Overwrites(c) ==
  \A i \in 1..Len(db.trainers) :
    db.trainers[i]._id = ObjectId(calls[c].id) =>
      LET read == calls[c].found[1].availableSlots
          after == db'.trainers[i].availableSlots
      IN /\ after = Splice(read, calls[c].slotIndex)
         /\ \A s \in Range(db.trainers[i].availableSlots) \ Range(read) :
              s \notin Range(after)

\* An add-slot appends its slot to the array as stored at that moment.
AddsToStored ==
  \A i \in 1..Len(db.trainers) :
    db.trainers[i]._id = ObjectId(last'.req.id) =>
      db'.trainers[i].availableSlots =
        (IF IsArray(db.trainers[i].availableSlots)
         THEN db.trainers[i].availableSlots ELSE <<>>) \o <<last'.req.slot>>

\* A remove-slot-by-value takes its slot, and nothing else, out of the array as
\* stored at that moment.
PullsFromStored ==
  \A i \in 1..Len(db.trainers) :
    (db.trainers[i]._id = ObjectId(last'.req.trainerId)
       /\ IsArray(db.trainers[i].availableSlots)) =>
      db'.trainers[i].availableSlots =
        SelectSeq(db.trainers[i].availableSlots, LAMBDA x : x # last'.req.slot)

\* C23: remove-slot-by-index writes back the array it read, spliced, so what
\* an add-slot or a remove-slot-by-value committed between its read and its
\* write-back is overwritten; add-slot and remove-slot-by-value each act on
\* the array as stored when they run and change nothing but their own slot.
C23_LostUpdate ==
  [][/\ \A c \in Calls : WritesBack(c) => Overwrites(c)
     /\ Serves(AddSlotOp) => AddsToStored
     /\ Serves(DeleteSlotOp) => PullsFromStored]_vars

\* An add-slot answered 200 after a remove-slot on the same trainer had read
\* the array, the remove-slot has written back and answered 200, no other
\* request has run since, and the added slot is not stored.
C23_Witness ==
  \E i \in 1..Len(db.trainers) :
    /\ last.op = AddSlotOp
    /\ last.status = 200
    /\ ObjectId(last.req.id) = db.trainers[i]._id
    /\ calls[1].op = RemoveSlotOp
    /\ calls[1].pc = "done"
    /\ calls[1].status = 200
    /\ ObjectId(calls[1].id) = db.trainers[i]._id
    /\ last.req.slot \notin Range(calls[1].found[1].availableSlots)
    /\ last.req.slot \notin Range(db.trainers[i].availableSlots)


\* C24: every class document created through POST /classes has
\* totalBookings = 0, whatever the payload supplied, and no operation, POST
\* /payments in particular, changes it.
C24_TotalBookingsZero ==
  \A class \in Range(db.classes) : class.totalBookings = 0

\* A class was created from a payload with totalBookings 7 and a payment was
\* then answered 201: the class is stored with totalBookings 0.
C24_Witness ==
  /\ last.op = "POST /payments"
  /\ last.status = 201
  /\ \E class \in Range(pre.classes) :
       /\ class.name = "Yoga"
       /\ class \in Range(db.classes)
       /\ class.totalBookings = 0


\* C25: starting from the empty store, every document of the users collection
\* has role "member": POST /users overwrites the role a new user's payload
\* supplies, Demote inserts with role "member", and nothing sets another role.
C25_AllMembers ==
  \A user \in Range(db.users) : user.role = "member"

\* A registration whose payload asked for role "admin" answered 201 and its
\* document is stored as a member, beside a user that a Demote inserted.
C25_Witness ==
  /\ last.op = RegisterOp
  /\ last.status = 201
  /\ last.req.role = "admin"
  /\ Len(db.users) = Len(pre.users) + 1
  /\ db.users[Len(db.users)].email = last.req.email
  /\ db.users[Len(db.users)].role = "member"
  /\ \E user \in Range(pre.users) : user.name # last.req.name /\ user.role = "member"

====
